---- MODULE Spec2Model ----
(***************************************************************************)
(* State-machine model of the graph streaming core:                        *)
(*   - the shared graph and the string-id -> node map of GraphService,     *)
(*   - the simulation loop spawned by GraphService::new,                   *)
(*   - graph builds (startup, periodic refresh, refresh handler),          *)
(*   - the SocketFlowServer streaming session (timer ticks, deadband       *)
(*     filter, inbound binary edits, text control messages), its           *)
(*     heartbeat, control frames and end,                                  *)
(*   - changes of the shared settings.                                     *)
(*                                                                         *)
(* Coordinates are fixed-point integers in units of 0.001, so that         *)
(* POSITION_DEADBAND = 0.005 is 5 and VELOCITY_DEADBAND = 0.001 is 1.      *)
(* Strings that the code parses or formats (node ids, file names) are      *)
(* sequences of one-character strings, so that parse::<u16>() and          *)
(* to_string() are computed and not assumed to be inverse to each other.   *)
(***************************************************************************)
EXTENDS Integers, Sequences, FiniteSets, TLC

(***************************************************************************)
(* Bounds of the model.                                                    *)
(***************************************************************************)
MaxBuilds == 1
MaxRebuilds == 2
MaxWideNodes == 5
MaxNameLen == 3
MaxRefCount == 2
MaxRevisions == 2
MaxFetchRuns == 2
MaxBroadcasts == 1
MaxPhysicsTicks == 1
MaxInboundFrames == 1
MaxUpdateCalls == 1
MaxSessionTicks == 2
MaxTextMessages == 1
MaxRepeatedTexts == 2
MaxControlFrames == 1
MaxHeartbeats == 3
MaxEnvLen == 3
MaxRequests == 2
MaxPage == 3
MaxPageSize == 3
MaxCommands == 4
MaxSpeechTexts == 1

(***************************************************************************)
(* Program constants.                                                      *)
(***************************************************************************)
POSITION_DEADBAND == 5
VELOCITY_DEADBAND == 1
MAX_U16_VALUE == 65535
RecordSize == 26
CompressionThreshold == 100
MaxInboundNodes == 2
DefaultFlags == 1
DefaultUpdateRate == 30
HEARTBEAT_INTERVAL == 5
CLIENT_TIMEOUT == 10
MillisPerSecond == 1000

VARIABLES
    graph,          \* GraphService.graph_data: [nodes, edges, metadata]
    node_map,       \* GraphService.node_map: string id -> node
    graph_lock,     \* holder of the write guard on graph_data, or "free"
    node_map_lock,  \* holder of the write guard on node_map, or "free"
    physics,        \* the simulation loop: [pc, i, enabled, gpu]
    gpu_nodes,      \* the compute device's node buffer (last step's read-back)
    sessions,       \* per SocketFlowServer actor: its fields and its context
    files,          \* the content repository, the metadata store and the contents
                    \* last fetched: [github, store, fetched, file_cache, result,
                    \* revision, runs]
    manager,        \* WebSocketManager.sessions and the WebSocketSession actors
    call,           \* the last call of a utility function: [name, arg, result]
    settings,       \* the shared Settings: [physics_enabled, binary_update_rate]
    http,           \* the settings endpoint: environment, settings files, last
                    \* request and response
    speech,         \* SpeechService: its channel, its worker and its connection
    budget          \* how many events of each kind have happened, and
                    \* max_builds, how many graph builds the run's content
                    \* repository gives rise to

vars == <<graph, node_map, graph_lock, node_map_lock, physics, gpu_nodes, sessions, settings,
          budget, call, files, manager, http, speech>>

(***************************************************************************)
(* Strings: node ids and file names.                                       *)
(***************************************************************************)
Digits == <<"0", "1", "2", "3", "4", "5", "6", "7", "8", "9">>

IsDigit(c) == \E d \in 1..10 : Digits[d] = c

DigitValue(c) == (CHOOSE d \in 1..10 : Digits[d] = c) - 1

\* The decimal value of a sequence of digit characters (capped above the u32
\* range so that the arithmetic stays bounded).
RECURSIVE DecimalValue(_)
DecimalValue(s) ==
    IF Len(s) = 0 THEN 0
    ELSE LET hi == DecimalValue(SubSeq(s, 1, Len(s) - 1))
         IN IF hi > MAX_U16_VALUE THEN hi
            ELSE hi * 10 + DigitValue(s[Len(s)])

\* str::parse::<u16>() / parse::<u32>() bounded by MAX_U16_VALUE: an optional
\* leading "+", then one or more digits, value at most 65535; ParseErr otherwise.
ParseErr == 0 - 1

ParseNodeId(id) ==
    LET body == IF Len(id) > 0 /\ id[1] = "+" THEN Tail(id) ELSE id
    IN IF Len(body) = 0 \/ \E k \in 1..Len(body) : ~IsDigit(body[k]) THEN ParseErr
       ELSE IF DecimalValue(body) > MAX_U16_VALUE THEN ParseErr
       ELSE DecimalValue(body)

\* u16::to_string(): the canonical decimal digits.
RECURSIVE to_string(_)
to_string(n) ==
    IF n < 10 THEN <<Digits[n + 1]>>
    ELSE Append(to_string(n \div 10), Digits[(n % 10) + 1])

\* str::trim_end_matches(".md"): the extension is one token of the name.
RECURSIVE TrimEndMd(_)
TrimEndMd(name) ==
    IF Len(name) > 0 /\ name[Len(name)] = ".md"
    THEN TrimEndMd(SubSeq(name, 1, Len(name) - 1))
    ELSE name

\* format!("{}.md", node_id)
WithMd(id) == Append(id, ".md")

File7 == <<"7", ".md">>
File07 == <<"0", "7", ".md">>
FileA == <<"a", ".md">>
FileB == <<"b", ".md">>
FileC == <<"c", ".md">>

\* The documents of the content repository and their byte sizes.
FileSizeOf(name) == IF name = File07 THEN 1000000 ELSE 100

(***************************************************************************)
(* utils/case_conversion.rs                                                *)
(***************************************************************************)
LowerLetters == <<"a", "b">>
UpperLetters == <<"A", "B">>

is_ascii_uppercase(c) == \E k \in 1..Len(UpperLetters) : UpperLetters[k] = c

is_ascii_lowercase(c) == \E k \in 1..Len(LowerLetters) : LowerLetters[k] = c

to_ascii_lowercase(c) ==
    IF is_ascii_uppercase(c)
    THEN LowerLetters[CHOOSE k \in 1..Len(UpperLetters) : UpperLetters[k] = c]
    ELSE c

to_ascii_uppercase(c) ==
    IF is_ascii_lowercase(c)
    THEN UpperLetters[CHOOSE k \in 1..Len(LowerLetters) : LowerLetters[k] = c]
    ELSE c

\* str::replace(from, to) for single characters.
ReplaceChar(str, from, to) == [k \in 1..Len(str) |-> IF str[k] = from THEN to ELSE str[k]]

\* str::replace(' ', "")
RemoveSpaces(str) == SelectSeq(str, LAMBDA c : c # " ")

\* The loop of to_camel_case over the characters after the first.
RECURSIVE CamelLoop(_, _, _)
CamelLoop(chars, capitalize_next, result) ==
    IF Len(chars) = 0 THEN result
    ELSE LET c == Head(chars)
         IN IF c = " " THEN CamelLoop(Tail(chars), TRUE, result)
            ELSE IF capitalize_next
            THEN CamelLoop(Tail(chars), FALSE, Append(result, to_ascii_uppercase(c)))
            ELSE CamelLoop(Tail(chars), FALSE, Append(result, to_ascii_lowercase(c)))

to_camel_case(str) ==
    IF Len(str) = 0 THEN <<>>
    ELSE LET spaced == ReplaceChar(ReplaceChar(str, "-", " "), "_", " ")
         IN RemoveSpaces(CamelLoop(Tail(spaced), FALSE, <<to_ascii_lowercase(Head(spaced))>>))

\* The strings the conversions are called with.
NameChars == {"a", "b", "A", "B", "_", "-", "1"}

Names == UNION { [1..n -> NameChars] : n \in 0..MaxNameLen }

(***************************************************************************)
(* Node records.                                                           *)
(***************************************************************************)
P0 == <<1000, 0, 0>>
PA == <<1003, 4, 0>>
PB == <<1010, 0, 0>>
V0 == <<0, 0, 0>>
VA == <<1, 0, 0>>
VB == <<1, 1, 0>>

\* Positions the Fibonacci-sphere initializer may give (with its jitter).
InitPositions == {P0}

\* (position, velocity) pairs a physics step may read back for a node.
PhysicsOutputs == { <<PA, VA>>, <<PB, V0>> }

\* Node::set_file_size: mass = max(1, (clamp(log10(size + 1) / 4, 0.1, 10) * 25.5) as u8).
\* MassSteps[k] is the least size whose mass is k + 1.
MassSteps ==
    << 0, 2, 4, 6, 8, 12, 17, 25, 37, 53, 76, 109, 157, 225, 323, 464, 666, 955,
       1371, 1968, 2824, 4053, 5817, 8347, 11979, 17190, 24669, 35401, 50802,
       72902, 104618, 150131, 215443, 309169, 443668, 636680, 913659, 1311133 >>

set_file_size(size) ==
    1 + Cardinality({k \in 1..Len(MassSteps) : MassSteps[k] <= size})

\* Node::new(id) followed by set_file_size and the initializer's position.
NewNode(id, size, pos) ==
    [id |-> id,
     data |-> [position |-> pos, velocity |-> V0,
               mass |-> set_file_size(size), flags |-> DefaultFlags]]

(***************************************************************************)
(* Graph build.                                                            *)
(***************************************************************************)
EmptyMap == [id \in {} |-> 0]

\* A Metadata entry of the store: the file's size and, per referenced file
\* name, the number of references to it.
Metadata(file_name, topic_counts) ==
    [file_size |-> FileSizeOf(file_name), topic_counts |-> topic_counts]

\* The metadata stores a build may be given: file name -> Metadata.
MetadataStores ==
    { [f \in fs |-> Metadata(f, EmptyMap)] : fs \in { {}, {File7}, {File7, File07}, {File7, FileA} } }

\* The topic counts a document may have over the given target file names.
TopicCountsOver(targets, counts) == UNION { [T -> counts] : T \in SUBSET targets }

\* The names references are counted under: file names without the extension.
TopicNames == {TrimEndMd(f) : f \in {FileA, FileB, FileC}}

\* Stores of documents that reference each other: two documents with up to
\* MaxRefCount references to themselves, to each other and to a document
\* outside the store, and three documents with single references.
TopicStores ==
    { [f \in {FileA, FileB} |-> Metadata(f, tc[f])] :
        tc \in [{FileA, FileB} -> TopicCountsOver(TopicNames, 1..MaxRefCount)] }
    \cup
    { [f \in {FileA, FileB, FileC} |-> Metadata(f, tc[f])] :
        tc \in [{FileA, FileB, FileC} -> TopicCountsOver(TopicNames, {1})] }

\* String's Ord: bytewise, lexicographic.
ByteOrder == Digits \o <<"a", "b", "c">>

ByteRank(c) == CHOOSE k \in 1..Len(ByteOrder) : ByteOrder[k] = c

RECURSIVE StrLess(_, _)
StrLess(a, b) ==
    IF Len(b) = 0 THEN FALSE
    ELSE IF Len(a) = 0 THEN TRUE
    ELSE IF Head(a) = Head(b) THEN StrLess(Tail(a), Tail(b))
    ELSE ByteRank(Head(a)) < ByteRank(Head(b))

\* A variant of EditAcquireGraph for a task that takes the node-map guard first.
EditAcquireNodeMapFirst(s, k) ==
    /\ sessions[s].running
    /\ k \in 1..Len(sessions[s].edits)
    /\ sessions[s].edits[k].pc = "graph"
    /\ node_map_lock = "free"
    /\ node_map_lock' = s
    /\ sessions' = [sessions EXCEPT ![s].edits[k].pc = "node_map"]
    /\ UNCHANGED <<http, speech, files, manager, call, settings, graph, node_map, graph_lock, physics, gpu_nodes, budget>>

\* The key of the edge map: the two ids, the lesser first.
edge_key_AsReferenced(source_id, target_id) == <<source_id, target_id>>

edge_key(source_id, target_id) ==
    IF StrLess(source_id, target_id) THEN <<source_id, target_id>>
    ELSE <<target_id, source_id>>

\* The (source file, target file) pairs of the second pass that pass its test.
EdgeReferences(metadata) ==
    LET valid_nodes == {TrimEndMd(f) : f \in DOMAIN metadata}
    IN { ref \in UNION { {<<f, t>> : t \in DOMAIN metadata[f].topic_counts} : f \in DOMAIN metadata } :
            /\ TrimEndMd(ref[1]) # TrimEndMd(ref[2])
            /\ TrimEndMd(ref[2]) \in valid_nodes }

RECURSIVE SumCounts(_, _)
SumCounts(metadata, refs) ==
    IF refs = {} THEN 0
    ELSE LET ref == CHOOSE r \in refs : TRUE
         IN metadata[ref[1]].topic_counts[ref[2]] + SumCounts(metadata, refs \ {ref})

\* edge_map after the second pass: key -> accumulated weight.
EdgeMap(metadata) ==
    LET refs == EdgeReferences(metadata)
        KeyOf(ref) == edge_key(TrimEndMd(ref[1]), TrimEndMd(ref[2]))
    IN [key \in {KeyOf(ref) : ref \in refs} |->
            SumCounts(metadata, {ref \in refs : KeyOf(ref) = key})]

\* The orders in which a HashSet of ids may be iterated.
Orderings(S) ==
    {seq \in [1..Cardinality(S) -> S] : \A i, j \in 1..Cardinality(S) : i # j => seq[i] # seq[j]}

\* GraphService::build_graph_from_metadata: one node per distinct trimmed file
\* name, in the HashSet's iteration order, mass from the file size, positions
\* from initialize_random_positions, zero velocity.
BuiltGraphs(metadata) ==
    LET valid_nodes == {TrimEndMd(f) : f \in DOMAIN metadata}
        edge_map == EdgeMap(metadata)
    IN { [nodes |-> [i \in 1..Cardinality(valid_nodes) |->
                        NewNode(order[i], metadata[WithMd(order[i])].file_size, pos[i])],
          edges |-> [i \in 1..Len(keys) |->
                        [source |-> keys[i][1], target |-> keys[i][2],
                         weight |-> edge_map[keys[i]]]],
          metadata |-> metadata]
         : order \in Orderings(valid_nodes),
           keys \in Orderings(DOMAIN edge_map),
           pos \in [1..Cardinality(valid_nodes) -> InitPositions] }

NodeIds(g) == {g.nodes[i].id : i \in 1..Len(g.nodes)}

\* The map that mirrors a node sequence.
MirrorOf(g) ==
    [id \in NodeIds(g) |-> g.nodes[CHOOSE i \in 1..Len(g.nodes) : g.nodes[i].id = id]]

(***************************************************************************)
(* services/file_service.rs: documents and their admission.                *)
(***************************************************************************)
PublicLine == <<"public:: true">>

\* First lines a document may have; the marker is one token of the line.
FirstLines == { PublicLine, <<" ", "public:: true", " ">>, <<"public:: false">>, <<>> }

\* str::trim on a line whose only whitespace is the space.
RECURSIVE trim(_)
trim(line) ==
    IF Len(line) > 0 /\ Head(line) = " " THEN trim(Tail(line))
    ELSE IF Len(line) > 0 /\ line[Len(line)] = " " THEN trim(SubSeq(line, 1, Len(line) - 1))
    ELSE line

\* FileService::calculate_sha1: the SHA-1 of the content's bytes.
calculate_sha1(content) == <<"sha1", content>>

\* The sha of the repository's listing: the hosting service's hash of the blob.
BlobSha(content) == <<"blob", content>>

RepositoryFiles == {FileA, FileB}

\* What happens to one file of a run: its content is fetched and written, the
\* fetch fails, or the write of the fetched content fails.
FileOutcomes == {"ok", "fetch_failed", "write_failed"}

NewFiles == [github |-> EmptyMap, store |-> EmptyMap, fetched |-> EmptyMap,
             file_cache |-> EmptyMap, result |-> "", revision |-> 0, runs |-> 0]

\* HashMap::insert
Insert(map, key, value) ==
    [k \in DOMAIN map \cup {key} |-> IF k = key THEN value ELSE map[k]]

\* The loop of fetch_and_process_files over files_to_process, in the order of
\* the listing: [store, fetched, err].
RECURSIVE ProcessFiles(_, _, _, _, _)
ProcessFiles(order, outcomes, github, store, fetched) ==
    IF Len(order) = 0 THEN [store |-> store, fetched |-> fetched, err |-> FALSE]
    ELSE LET file_name == Head(order)
             content == github[file_name].content
         IN IF outcomes[file_name] = "fetch_failed"
            THEN ProcessFiles(Tail(order), outcomes, github, store, fetched)
            ELSE IF trim(content.first_line) # PublicLine
            THEN ProcessFiles(Tail(order), outcomes, github, store,
                              Insert(fetched, file_name, content))
            ELSE IF outcomes[file_name] = "write_failed"
            THEN [store |-> store, fetched |-> Insert(fetched, file_name, content), err |-> TRUE]
            ELSE ProcessFiles(Tail(order), outcomes, github,
                              Insert(store, file_name,
                                     [file_name |-> file_name, sha1 |-> calculate_sha1(content)]),
                              Insert(fetched, file_name, content))

\* The settings endpoint: the POWER_USER_PUBKEYS variable of the environment
\* (unset, or a string), the settings file, the files of the per-user
\* settings store, and the last request with its response.
EnvUnset == [set |-> FALSE, value |-> <<>>]

\* settings_file holds what save() wrote last, empty while the file is as loaded.
NewHttp == [power_user_pubkeys |-> EnvUnset, settings_file |-> <<>>,
            user_settings |-> EmptyMap, handler |-> "", status |-> 0, requests |-> 0]

\* The SpeechService of main ("main") and the one a SpeechWs actor creates
\* for a text frame ("ws").
ServiceIds == {"main", "ws"}

\* SpeechService::new(): provider Sonata, an empty channel, the worker
\* started with no connection. sent and log are the history: the commands
\* that entered the channel, and per handled command the provider it was
\* handled under and what became of it.
NewService ==
    [created |-> TRUE, tts_provider |-> "Sonata", channel |-> <<>>, ws_stream |-> "None",
     worker |-> "running", sent |-> <<>>, log |-> <<>>]

NoService == [NewService EXCEPT !.created = FALSE, !.worker = "none"]

\* main has created its service; future holds the commands the future
\* spawned by a SpeechWs text frame has still to send.
NewSpeech ==
    [services |-> [id \in ServiceIds |-> IF id = "main" THEN NewService ELSE NoService],
     future |-> <<>>, texts |-> 0]

\* GraphData::new()
NewGraphData == [nodes |-> <<>>, edges |-> <<>>, metadata |-> EmptyMap]

(***************************************************************************)
(* Initial state: GraphService::new has run, no client is connected.       *)
(***************************************************************************)
Sessions == {"s1"}

\* The addresses of the WebSocketSession actors and the texts broadcast.
WsAddrs == {"w1", "w2"}

BroadcastTexts == {"graphUpdate"}

\* WebSocketManager::new(): no session registered. actors holds, per
\* WebSocketSession, its state, its mailbox and the texts sent to its client;
\* broadcast is the call of broadcast_message in progress.
NewManager ==
    [sessions |-> <<>>,
     actors |-> [a \in WsAddrs |-> [state |-> "none", mailbox |-> <<>>, outbox |-> <<>>]],
     broadcast |-> [state |-> "idle", message |-> "", snapshot |-> <<>>, pending |-> {},
                    result |-> "", calls |-> 0]]

\* SocketFlowServer::new: Duration::from_millis((1000.0 / update_rate as f64) as u64)
update_interval_of(update_rate) == MillisPerSecond \div update_rate

NewSession ==
    [phase |-> "none",
     running |-> FALSE,
     clock |-> 0,
     last_activity |-> 0,
     last_inbound |-> 0,
     update_interval |-> 0,
     interval_timers |-> 0,
     pending_ticks |-> 0,
     edits |-> <<>>,
     last_sent_positions |-> EmptyMap,
     last_sent_velocities |-> EmptyMap,
     last_transfer_size |-> 0,
     total_bytes_sent |-> 0,
     update_count |-> 0,
     nodes_sent_count |-> 0,
     outbox |-> <<>>]

Init ==
    /\ graph = NewGraphData
    /\ node_map = EmptyMap
    /\ graph_lock = "free"
    /\ node_map_lock = "free"
    /\ physics \in [pc : {"sleep"}, i : {0}, enabled : BOOLEAN, gpu : BOOLEAN]
    /\ gpu_nodes = <<>>
    /\ sessions = [s \in Sessions |-> NewSession]
    /\ call = [name |-> "", arg |-> <<>>, result |-> <<>>]
    /\ files = NewFiles
    /\ http = NewHttp
    /\ speech = NewSpeech
    /\ manager = NewManager
    /\ settings = [physics_enabled |-> physics.enabled,
                   binary_update_rate |-> DefaultUpdateRate]
    /\ budget = [builds |-> 0, physics_ticks |-> 0, inbound |-> 0,
                 session_ticks |-> 0, texts |-> 0, controls |-> 0, updates |-> 0,
                 max_builds |-> MaxBuilds, max_texts |-> MaxTextMessages]

(***************************************************************************)
(* Graph builds.                                                           *)
(***************************************************************************)
\* main.rs update_graph_periodically: positions (x, y, z) of the nodes that
\* were in the old graph are copied into the new graph.
PreservePositions(new_graph, old_graph) ==
    LET old_positions == [id \in NodeIds(old_graph) |-> MirrorOf(old_graph)[id].data.position]
    IN [new_graph EXCEPT !.nodes = [i \in 1..Len(new_graph.nodes) |->
            IF new_graph.nodes[i].id \in DOMAIN old_positions
            THEN [new_graph.nodes[i] EXCEPT !.data.position = old_positions[new_graph.nodes[i].id]]
            ELSE new_graph.nodes[i]]]

\* main.rs initialize_cached_graph_data: the graph built from the cached
\* metadata replaces the graph; the node map is not written.
InitializeCachedGraphFrom(stores) ==
    /\ budget.builds = 0
    /\ graph_lock = "free"
    /\ \E metadata \in stores : \E g \in BuiltGraphs(metadata) :
          graph' = g
    /\ budget' = [budget EXCEPT !.builds = @ + 1]
    /\ UNCHANGED <<http, speech, files, manager, call, settings, node_map, graph_lock, node_map_lock, physics, gpu_nodes, sessions>>

InitializeCachedGraph == InitializeCachedGraphFrom(MetadataStores)

\* main.rs update_graph_periodically, when files were processed: under the
\* write guard on the graph, the graph's metadata is replaced, then the graph
\* is rebuilt; on Ok the new graph, with the old positions, replaces the
\* graph, on Err nothing more is done. The node map is not written.
\* build_graph_from_metadata returns a Result; its present body has no
\* return of Err.
BuildResults(metadata) ==
    { [ok |-> TRUE, graph |-> g] : g \in BuiltGraphs(metadata) }
    \cup { [ok |-> FALSE, graph |-> NewGraphData] }

UpdateGraphWith(metadata_map, built) ==
    /\ budget.builds < budget.max_builds
    /\ graph_lock = "free"
    /\ graph' = IF built.ok
                THEN PreservePositions(built.graph, graph)
                ELSE [graph EXCEPT !.metadata = metadata_map]
    /\ budget' = [budget EXCEPT !.builds = @ + 1]
    /\ UNCHANGED <<http, speech, files, manager, call, settings, node_map, graph_lock, node_map_lock, physics, gpu_nodes, sessions>>

UpdateGraphPeriodically ==
    \E metadata_map \in MetadataStores : \E built \in BuildResults(metadata_map) :
        UpdateGraphWith(metadata_map, built)

\* The refresh handler of the registry (declared in handlers/api_handler/mod.rs,
\* its code is not part of the sources): builds the graph inside the registry
\* under both write guards, keeps position and velocity of surviving nodes and
\* leaves the node map mirroring the node sequence.
PreserveRecords(new_graph, old_graph) ==
    [new_graph EXCEPT !.nodes = [i \in 1..Len(new_graph.nodes) |->
        IF new_graph.nodes[i].id \in NodeIds(old_graph)
        THEN [new_graph.nodes[i] EXCEPT
                !.data.position = MirrorOf(old_graph)[new_graph.nodes[i].id].data.position,
                !.data.velocity = MirrorOf(old_graph)[new_graph.nodes[i].id].data.velocity]
        ELSE new_graph.nodes[i]]]

RefreshGraph ==
    /\ budget.builds < budget.max_builds
    /\ graph_lock = "free"
    /\ node_map_lock = "free"
    /\ \E metadata \in MetadataStores : \E g \in BuiltGraphs(metadata) :
          /\ graph' = PreserveRecords(g, graph)
          /\ node_map' = MirrorOf(PreserveRecords(g, graph))
    /\ budget' = [budget EXCEPT !.builds = @ + 1]
    /\ UNCHANGED <<http, speech, files, manager, call, settings, graph_lock, node_map_lock, physics, gpu_nodes, sessions>>

(***************************************************************************)
(* The simulation loop of GraphService::new.                               *)
(***************************************************************************)
\* The compute device's step (GPUCompute is not part of the sources): one
\* record per uploaded node, new position and velocity, mass and flags as
\* uploaded.
StepResults(g) ==
    { [i \in 1..Len(g.nodes) |->
          [position |-> out[i][1], velocity |-> out[i][2],
           mass |-> g.nodes[i].data.mass, flags |-> g.nodes[i].data.flags]]
      : out \in [1..Len(g.nodes) -> PhysicsOutputs] }

\* loop head: graph_data.write().await
PhysicsAcquireGraph ==
    /\ physics.pc = "sleep"
    /\ budget.physics_ticks < MaxPhysicsTicks
    /\ graph_lock = "free"
    /\ graph_lock' = "physics"
    /\ physics' = [physics EXCEPT !.pc = "want_map"]
    /\ budget' = [budget EXCEPT !.physics_ticks = @ + 1]
    /\ UNCHANGED <<http, speech, files, manager, call, settings, graph, node_map, node_map_lock, gpu_nodes, sessions>>

\* node_map.write().await
PhysicsAcquireNodeMap ==
    /\ physics.pc = "want_map"
    /\ node_map_lock = "free"
    /\ node_map_lock' = "physics"
    /\ physics' = [physics EXCEPT !.pc = "locked"]
    /\ UNCHANGED <<http, speech, files, manager, call, settings, graph, node_map, graph_lock, gpu_nodes, sessions, budget>>

\* A variant of PhysicsStep in which a failing read-back has already
\* overwritten the first node before the error is returned.
PhysicsStep_WriteThenFail ==
    /\ physics.pc = "locked"
    /\ IF physics.enabled /\ physics.gpu
       THEN \/ \E updated_nodes \in StepResults(graph) :
                 /\ gpu_nodes' = updated_nodes
                 /\ physics' = [physics EXCEPT !.pc = "write", !.i = 0]
                 /\ UNCHANGED graph
            \/ /\ physics' = [physics EXCEPT !.pc = "release"]
               /\ \E updated_nodes \in StepResults(graph) :
                     graph' = IF Len(graph.nodes) > 0
                              THEN [graph EXCEPT !.nodes[1].data = updated_nodes[1]]
                              ELSE graph
               /\ UNCHANGED gpu_nodes
       ELSE /\ physics' = [physics EXCEPT !.pc = "release"]
            /\ UNCHANGED <<graph, gpu_nodes>>
    /\ UNCHANGED <<http, speech, files, manager, call, settings, node_map, graph_lock, node_map_lock, sessions, budget>>

\* calculate_layout up to get_node_data: any of the device calls may fail,
\* and then nothing is written. With physics disabled or without a device
\* the tick body is skipped.
PhysicsStep ==
    /\ physics.pc = "locked"
    /\ IF physics.enabled /\ physics.gpu
       THEN \/ \E updated_nodes \in StepResults(graph) :
                 /\ gpu_nodes' = updated_nodes
                 /\ physics' = [physics EXCEPT !.pc = "write", !.i = 0]
            \/ /\ physics' = [physics EXCEPT !.pc = "release"]
               /\ UNCHANGED gpu_nodes
       ELSE /\ physics' = [physics EXCEPT !.pc = "release"]
            /\ UNCHANGED gpu_nodes
    /\ UNCHANGED <<http, speech, files, manager, call, settings, graph, node_map, graph_lock, node_map_lock, sessions, budget>>

\* calculate_layout's write-back loop, one node: node.data = updated_nodes[i],
\* and the same record into the map entry of that id when there is one.
PhysicsWrite ==
    /\ physics.pc = "write"
    /\ IF physics.i < Len(graph.nodes)
       THEN LET i == physics.i + 1
                id == graph.nodes[i].id
            IN /\ graph' = [graph EXCEPT !.nodes[i].data = gpu_nodes[i]]
               /\ node_map' = IF id \in DOMAIN node_map
                              THEN [node_map EXCEPT ![id].data = gpu_nodes[i]]
                              ELSE node_map
               /\ physics' = [physics EXCEPT !.i = i]
       ELSE /\ physics' = [physics EXCEPT !.pc = "release"]
            /\ UNCHANGED <<graph, node_map>>
    /\ UNCHANGED <<http, speech, files, manager, call, settings, graph_lock, node_map_lock, gpu_nodes, sessions, budget>>

\* drop(graph); drop(node_map); then the inter-tick sleep.
PhysicsRelease ==
    /\ physics.pc = "release"
    /\ graph_lock' = "free"
    /\ node_map_lock' = "free"
    /\ physics' = [physics EXCEPT !.pc = "sleep", !.i = 0]
    /\ UNCHANGED <<http, speech, files, manager, call, settings, graph, node_map, gpu_nodes, sessions, budget>>

(***************************************************************************)
(* Wire frames and the codec.                                              *)
(***************************************************************************)
\* The records and frames a client sends: id 7 names a node when "7.md" is a
\* document, id 9 names none.
Rec7a == [id |-> 7, position |-> P0, velocity |-> VB]
Rec7b == [id |-> 7, position |-> PA, velocity |-> VA]
Rec9 == [id |-> 9, position |-> PB, velocity |-> V0]

\* An inbound binary frame: the encoding of `nodes` followed by `extra` bytes.
Frames ==
    { [nodes |-> ns, extra |-> 0] :
        ns \in { <<>>, <<Rec7a>>, <<Rec7b>>, <<Rec9>>, <<Rec7a, Rec7b>>, <<Rec9, Rec7a>>,
                 [k \in 1..(MaxInboundNodes + 1) |-> Rec7a] } }
    \cup { [nodes |-> <<Rec7a>>, extra |-> 1] }

FrameLength(frame) == RecordSize * Len(frame.nodes) + frame.extra

\* binary_protocol::decode_node_data (not part of the sources; after the wire
\* format's rule): a length that is no multiple of the record size is an
\* error, otherwise the records in order.
decode_node_data(frame) ==
    IF FrameLength(frame) % RecordSize # 0
    THEN [ok |-> FALSE, nodes |-> <<>>]
    ELSE [ok |-> TRUE, nodes |-> frame.nodes]

\* binary_protocol::encode_node_data (not part of the sources): the records
\* in the order of the list, RecordSize bytes each.
encode_node_data(nodes) == [nodes |-> nodes, len |-> RecordSize * Len(nodes)]

\* The lengths the zlib encoder may produce for a payload of `len` bytes.
ZlibLengths(len) == IF len > CompressionThreshold THEN {len - 1, len + 11} ELSE {len}

\* A variant of maybe_compress that keeps the compressed form whenever the
\* payload is above the threshold.
maybe_compress_KeepAlways(len, compressed_len) ==
    IF len > CompressionThreshold THEN compressed_len ELSE len

\* SocketFlowServer::maybe_compress: the length of the payload that is sent.
maybe_compress(len, compressed_len) ==
    IF len > CompressionThreshold /\ compressed_len < len THEN compressed_len ELSE len

\* What the session hands to its context: ctx.text / ctx.binary.
TextMessage(type) ==
    [kind |-> "text", type |-> type, message |-> "", nodes |-> <<>>, len |-> 0]

ErrorMessage(message) ==
    [kind |-> "text", type |-> "error", message |-> message, nodes |-> <<>>, len |-> 0]

BinaryMessage(nodes, len) ==
    [kind |-> "binary", type |-> "", message |-> "", nodes |-> nodes, len |-> len]

\* ctx.ping / ctx.pong / ctx.close(reason)
PingFrame == [kind |-> "ping", type |-> "", message |-> "", nodes |-> <<>>, len |-> 0]

PongFrame == [kind |-> "pong", type |-> "", message |-> "", nodes |-> <<>>, len |-> 0]

CloseFrame(code) == [kind |-> "close", type |-> code, message |-> "", nodes |-> <<>>, len |-> 0]

(***************************************************************************)
(* The deadband filter.                                                    *)
(***************************************************************************)
\* dx * dx + dy * dy + dz * dz
DistanceSquared(a, b) ==
    (a[1] - b[1]) * (a[1] - b[1]) + (a[2] - b[2]) * (a[2] - b[2])
        + (a[3] - b[3]) * (a[3] - b[3])

\* A variant of position_changed whose comparison is not strict.
position_changed_NonStrict(last_sent_positions, node_id, new_position) ==
    IF node_id \in DOMAIN last_sent_positions
    THEN DistanceSquared(new_position, last_sent_positions[node_id])
            >= POSITION_DEADBAND * POSITION_DEADBAND
    ELSE TRUE

position_changed(last_sent_positions, node_id, new_position) ==
    IF node_id \in DOMAIN last_sent_positions
    THEN DistanceSquared(new_position, last_sent_positions[node_id])
            > POSITION_DEADBAND * POSITION_DEADBAND
    ELSE TRUE

velocity_changed(last_sent_velocities, node_id, new_velocity) ==
    IF node_id \in DOMAIN last_sent_velocities
    THEN DistanceSquared(new_velocity, last_sent_velocities[node_id])
            > VELOCITY_DEADBAND * VELOCITY_DEADBAND
    ELSE TRUE

\* The value SocketFlowServer::has_node_changed_significantly returns.
has_node_changed_significantly(sess, node_id, new_position, new_velocity) ==
    \/ position_changed(sess.last_sent_positions, node_id, new_position)
    \/ velocity_changed(sess.last_sent_velocities, node_id, new_velocity)

\* The session after has_node_changed_significantly(node_id, ..) has run.
AfterChangeCheck(sess, node_id, new_position, new_velocity) ==
    IF has_node_changed_significantly(sess, node_id, new_position, new_velocity)
    THEN [sess EXCEPT
            !.last_sent_positions = Insert(@, node_id, new_position),
            !.last_sent_velocities = Insert(@, node_id, new_velocity)]
    ELSE sess

\* The tick future's copy-out loop: the nodes whose id parses, in order.
RECURSIVE CopyOut(_)
CopyOut(raw_nodes) ==
    IF Len(raw_nodes) = 0 THEN <<>>
    ELSE LET node == Head(raw_nodes)
             node_id == ParseNodeId(node.id)
         IN IF node_id = ParseErr THEN CopyOut(Tail(raw_nodes))
            ELSE <<[id |-> node_id, position |-> node.data.position,
                    velocity |-> node.data.velocity]>> \o CopyOut(Tail(raw_nodes))

\* The actor closure's filter loop: [sess, kept] after the nodes were checked
\* one after the other against the session's last-sent maps.
RECURSIVE FilterNodes(_, _)
FilterNodes(sess, nodes) ==
    IF Len(nodes) = 0 THEN [sess |-> sess, kept |-> <<>>]
    ELSE LET n == Head(nodes)
             key == to_string(n.id)
             hit == has_node_changed_significantly(sess, key, n.position, n.velocity)
             rest == FilterNodes(AfterChangeCheck(sess, key, n.position, n.velocity), Tail(nodes))
         IN [sess |-> rest.sess,
             kept |-> IF hit THEN <<n>> \o rest.kept ELSE rest.kept]

(***************************************************************************)
(* The streaming session (SocketFlowServer).                               *)
(***************************************************************************)
Send(sess, msg) == [sess EXCEPT !.outbox = Append(@, msg)]

\* socket_flow_handler: SocketFlowServer::new, which computes the update
\* interval from the settings of that moment, then Actor::started.
Connect(s) ==
    /\ sessions[s].phase = "none"
    /\ sessions' = [sessions EXCEPT ![s] =
          Send(Send([@ EXCEPT !.phase = "open",
                              !.running = TRUE,
                              !.last_activity = sessions[s].clock,
                              !.update_interval =
                                  update_interval_of(settings.binary_update_rate)],
                    TextMessage("connection_established")), TextMessage("loading"))]
    /\ UNCHANGED <<http, speech, files, manager, call, settings, graph, node_map, graph_lock, node_map_lock, physics, gpu_nodes, budget>>

\* StreamHandler::handle on a ping, pong, text or binary frame:
\* self.last_activity = Instant::now(). last_inbound is the time of the last
\* frame received from the client; the session itself keeps no such field.
Received(sess) == [sess EXCEPT !.last_activity = sess.clock, !.last_inbound = sess.clock]

TextTypes == {"ping", "requestInitialData", "enableRandomization", "unknown", "malformed"}

\* StreamHandler::handle, Text branch.
text_reply(sess, type) ==
    CASE type = "ping" -> Send(sess, TextMessage("pong"))
      [] type = "requestInitialData" ->
            Send([sess EXCEPT !.interval_timers = @ + 1], TextMessage("updatesStarted"))
      [] type = "enableRandomization" -> sess
      [] type = "malformed" -> Send(sess, ErrorMessage("Failed to parse text message"))
      [] OTHER -> sess

HandleText(s, type) ==
    /\ sessions[s].running
    /\ budget.texts < budget.max_texts
    /\ sessions' = [sessions EXCEPT ![s] = text_reply(Received(@), type)]
    /\ budget' = [budget EXCEPT !.texts = @ + 1]
    /\ UNCHANGED <<http, speech, files, manager, call, settings, graph, node_map, graph_lock, node_map_lock, physics, gpu_nodes>>

\* A variant of TimerTick whose timer runs from the start of the session.
TimerTick_FromStart(s) ==
    /\ sessions[s].running
    /\ budget.session_ticks < MaxSessionTicks
    /\ sessions' = [sessions EXCEPT ![s].pending_ticks = @ + 1]
    /\ budget' = [budget EXCEPT !.session_ticks = @ + 1]
    /\ UNCHANGED <<http, speech, files, manager, call, settings, graph, node_map, graph_lock, node_map_lock, physics, gpu_nodes>>

\* ctx.run_interval's closure: spawns the future that samples the graph.
TimerTick(s) ==
    /\ sessions[s].running
    /\ sessions[s].interval_timers > 0
    /\ budget.session_ticks < MaxSessionTicks
    /\ sessions' = [sessions EXCEPT ![s].pending_ticks = @ + 1]
    /\ budget' = [budget EXCEPT !.session_ticks = @ + 1]
    /\ UNCHANGED <<http, speech, files, manager, call, settings, graph, node_map, graph_lock, node_map_lock, physics, gpu_nodes>>

\* A variant of CanRead for a sample that is taken without the read guard.
CanReadUnguarded == TRUE

\* GraphService::get_node_positions resolves when no write guard is held.
CanRead == graph_lock = "free"

\* A variant of tick_result that sends the frame also when it has no record.
tick_result_SendEmpty(sess, raw_nodes, compressed_len) ==
    LET filtered == FilterNodes(sess, CopyOut(raw_nodes))
        binary_data == encode_node_data(filtered.kept)
        final_len == maybe_compress(binary_data.len, compressed_len)
    IN IF Len(raw_nodes) = 0 \/ Len(CopyOut(raw_nodes)) = 0 THEN sess
       ELSE Send([filtered.sess EXCEPT
                    !.last_transfer_size = final_len,
                    !.total_bytes_sent = @ + final_len,
                    !.update_count = @ + 1,
                    !.nodes_sent_count = @ + Len(filtered.kept)],
                 BinaryMessage(binary_data.nodes, final_len))

\* The session after the tick future and its actor closure ran on raw_nodes.
tick_result(sess, raw_nodes, compressed_len) ==
    LET nodes == CopyOut(raw_nodes)
        filtered == FilterNodes(sess, nodes)
        binary_data == encode_node_data(filtered.kept)
        final_len == maybe_compress(binary_data.len, compressed_len)
    IN IF Len(raw_nodes) = 0 \/ Len(nodes) = 0 THEN sess
       ELSE IF Len(filtered.kept) = 0 THEN filtered.sess
       ELSE Send([filtered.sess EXCEPT
                    !.last_transfer_size = final_len,
                    !.total_bytes_sent = @ + final_len,
                    !.update_count = @ + 1,
                    !.nodes_sent_count = @ + Len(filtered.kept)],
                 BinaryMessage(binary_data.nodes, final_len))

\* A variant of get_node_positions that returns the records the compute
\* device read back at its last step instead of the graph's current records.
get_node_positions_FromDevice ==
    [i \in 1..Len(graph.nodes) |->
        IF i <= Len(gpu_nodes) THEN [graph.nodes[i] EXCEPT !.data = gpu_nodes[i]]
        ELSE graph.nodes[i]]

\* GraphService::get_node_positions: a clone of the node sequence, taken
\* under the read guard.
get_node_positions == graph.nodes

\* The tick future (one await: get_node_positions) and its actor closure,
\* which runs in the poll that completes the future.
TickRun(s) ==
    /\ sessions[s].running
    /\ sessions[s].pending_ticks > 0
    /\ CanRead
    /\ \E compressed_len \in
             ZlibLengths(RecordSize
                 * Len(FilterNodes(sessions[s], CopyOut(get_node_positions)).kept)) :
          sessions' = [sessions EXCEPT ![s] =
              tick_result([@ EXCEPT !.pending_ticks = @ - 1], get_node_positions, compressed_len)]
    /\ UNCHANGED <<http, speech, files, manager, call, settings, graph, node_map, graph_lock, node_map_lock, physics, gpu_nodes, budget>>

\* A variant of binary_reply without the limit on the number of records.
binary_reply_NoLimit(sess, frame) ==
    IF ~decode_node_data(frame).ok
    THEN Send(sess, ErrorMessage("Failed to decode binary message"))
    ELSE [sess EXCEPT !.edits =
            Append(@, [nodes_vec |-> decode_node_data(frame).nodes, pc |-> "graph"])]

\* StreamHandler::handle, Binary branch, up to spawning the edit future.
binary_reply(sess, frame) ==
    LET decoded == decode_node_data(frame)
    IN IF ~decoded.ok THEN Send(sess, ErrorMessage("Failed to decode binary message"))
       ELSE IF Len(decoded.nodes) <= MaxInboundNodes
       THEN [sess EXCEPT !.edits = Append(@, [nodes_vec |-> decoded.nodes, pc |-> "graph"])]
       ELSE Send(sess, ErrorMessage("Too many nodes in update"))

HandleBinary(s, frame) ==
    /\ sessions[s].running
    /\ budget.inbound < MaxInboundFrames
    /\ sessions' = [sessions EXCEPT ![s] = binary_reply(Received(@), frame)]
    /\ budget' = [budget EXCEPT !.inbound = @ + 1]
    /\ UNCHANGED <<http, speech, files, manager, call, settings, graph, node_map, graph_lock, node_map_lock, physics, gpu_nodes>>

\* A variant of ApplyRecord that assigns the whole physics record, with the
\* mass and flags of a zeroed record, instead of restoring the entry's own.
ApplyRecordWholeData(map, rec) ==
    IF to_string(rec.id) \in DOMAIN map
    THEN [map EXCEPT ![to_string(rec.id)].data =
            [position |-> rec.position, velocity |-> rec.velocity,
             mass |-> 0, flags |-> 0]]
    ELSE map

\* One iteration of the edit future's first loop: position and velocity of
\* the map entry named by the record, mass and flags restored; a record that
\* names no entry is skipped.
ApplyRecord(map, rec) ==
    LET node_id_str == to_string(rec.id)
    IN IF node_id_str \in DOMAIN map
       THEN [map EXCEPT ![node_id_str].data =
                [position |-> rec.position, velocity |-> rec.velocity,
                 mass |-> map[node_id_str].data.mass,
                 flags |-> map[node_id_str].data.flags]]
       ELSE map

\* The edit future's first loop.
RECURSIVE ApplyRecords(_, _)
ApplyRecords(map, nodes_vec) ==
    IF Len(nodes_vec) = 0 THEN map
    ELSE ApplyRecords(ApplyRecord(map, Head(nodes_vec)), Tail(nodes_vec))

\* The edit future's second loop: every graph node whose id is in the map
\* takes the map entry's position and velocity, and keeps its mass and flags.
PropagateToGraph(g, map) ==
    [g EXCEPT !.nodes = [i \in 1..Len(g.nodes) |->
        IF g.nodes[i].id \in DOMAIN map
        THEN [g.nodes[i] EXCEPT
                !.data = [position |-> map[g.nodes[i].id].data.position,
                          velocity |-> map[g.nodes[i].id].data.velocity,
                          mass |-> g.nodes[i].data.mass,
                          flags |-> g.nodes[i].data.flags]]
        ELSE g.nodes[i]]]

RemoveAt(seq, k) == SubSeq(seq, 1, k - 1) \o SubSeq(seq, k + 1, Len(seq))

\* get_graph_data_mut().await of an edit future.
EditAcquireGraph(s, k) ==
    /\ sessions[s].running
    /\ k \in 1..Len(sessions[s].edits)
    /\ sessions[s].edits[k].pc = "graph"
    /\ graph_lock = "free"
    /\ graph_lock' = s
    /\ sessions' = [sessions EXCEPT ![s].edits[k].pc = "node_map"]
    /\ UNCHANGED <<http, speech, files, manager, call, settings, graph, node_map, node_map_lock, physics, gpu_nodes, budget>>

\* get_node_map_mut().await, the two loops, and the release of both guards.
EditApply(s, k) ==
    /\ sessions[s].running
    /\ k \in 1..Len(sessions[s].edits)
    /\ sessions[s].edits[k].pc = "node_map"
    /\ node_map_lock = "free"
    /\ node_map' = ApplyRecords(node_map, sessions[s].edits[k].nodes_vec)
    /\ graph' = PropagateToGraph(graph, node_map')
    /\ graph_lock' = "free"
    /\ sessions' = [sessions EXCEPT ![s].edits = RemoveAt(@, k)]
    /\ UNCHANGED <<http, speech, files, manager, call, settings, node_map_lock, physics, gpu_nodes, budget>>

(***************************************************************************)
(* GraphService::update_node_positions.                                    *)
(***************************************************************************)
\* Node::new(id).with_position(..).with_velocity(..): mass 0, flags 1.
UpdateNode(id, position, velocity) ==
    [id |-> to_string(id),
     data |-> [position |-> position, velocity |-> velocity, mass |-> 0,
               flags |-> DefaultFlags]]

\* The update lists a caller passes: pairs of numeric id and node.
UpdateBatches ==
    { <<>>,
      << <<7, UpdateNode(7, PB, VB)>> >>,
      << <<9, UpdateNode(9, PA, VA)>> >>,
      << <<7, UpdateNode(7, PA, V0)>>, <<7, UpdateNode(7, PB, VA)>> >> }

\* First loop: the map entry named by node_id.to_string() takes the whole
\* physics record of the update's node.
RECURSIVE ApplyUpdates(_, _)
ApplyUpdates(map, updates) ==
    IF Len(updates) = 0 THEN map
    ELSE LET node_id == to_string(Head(updates)[1])
             node_data == Head(updates)[2]
         IN ApplyUpdates(IF node_id \in DOMAIN map
                         THEN [map EXCEPT ![node_id].data = node_data.data]
                         ELSE map,
                         Tail(updates))

\* Second loop: every graph node whose id is in the map takes the map
\* entry's whole physics record.
CopyMapToGraph(g, map) ==
    [g EXCEPT !.nodes = [i \in 1..Len(g.nodes) |->
        IF g.nodes[i].id \in DOMAIN map
        THEN [g.nodes[i] EXCEPT !.data = map[g.nodes[i].id].data]
        ELSE g.nodes[i]]]

\* update_node_positions, self.graph_data.write().await: the call holds the
\* write guard on the graph and waits for the one on the node map.
UpdateAcquireGraph(updates) ==
    /\ budget.updates < MaxUpdateCalls
    /\ ~(call.name = "update_node_positions" /\ call.result = "node_map")
    /\ graph_lock = "free"
    /\ graph_lock' = "updater"
    /\ call' = [name |-> "update_node_positions", arg |-> updates, result |-> "node_map"]
    /\ budget' = [budget EXCEPT !.updates = @ + 1]
    /\ UNCHANGED <<http, speech, files, manager, settings, graph, node_map, node_map_lock, physics, gpu_nodes, sessions>>

\* update_node_positions from self.node_map.write().await on: the two loops,
\* then both guards are dropped and Ok(()) is returned.
UpdateNodePositions(updates) ==
    /\ call.name = "update_node_positions"
    /\ call.result = "node_map"
    /\ call.arg = updates
    /\ node_map_lock = "free"
    /\ node_map' = ApplyUpdates(node_map, updates)
    /\ graph' = CopyMapToGraph(graph, node_map')
    /\ graph_lock' = "free"
    /\ call' = [call EXCEPT !.result = "Ok"]
    /\ UNCHANGED <<http, speech, files, manager, settings, node_map_lock, physics, gpu_nodes, sessions, budget>>

(***************************************************************************)
(* The session's heartbeat, control frames and end.                        *)
(***************************************************************************)
\* The interval closure set up in Actor::started fires, HEARTBEAT_INTERVAL
\* seconds after the last time: a ping is sent and last_activity is set to the present.
Heartbeat(s) ==
    /\ sessions[s].running
    /\ sessions[s].clock < MaxHeartbeats
    /\ sessions' = [sessions EXCEPT ![s] =
          Send([@ EXCEPT !.clock = @ + 1, !.last_activity = sessions[s].clock + 1],
               PingFrame)]
    /\ UNCHANGED <<http, speech, files, manager, call, settings, graph, node_map, graph_lock, node_map_lock, physics, gpu_nodes, budget>>

\* StreamHandler::handle, Ping branch.
HandlePing(s) ==
    /\ sessions[s].running
    /\ budget.controls < MaxControlFrames
    /\ sessions' = [sessions EXCEPT ![s] = Received(Send(@, PongFrame))]
    /\ budget' = [budget EXCEPT !.controls = @ + 1]
    /\ UNCHANGED <<http, speech, files, manager, call, settings, graph, node_map, graph_lock, node_map_lock, physics, gpu_nodes>>

\* StreamHandler::handle, Pong branch.
HandlePong(s) ==
    /\ sessions[s].running
    /\ budget.controls < MaxControlFrames
    /\ sessions' = [sessions EXCEPT ![s] = Received(@)]
    /\ budget' = [budget EXCEPT !.controls = @ + 1]
    /\ UNCHANGED <<http, speech, files, manager, call, settings, graph, node_map, graph_lock, node_map_lock, physics, gpu_nodes>>

\* ctx.stop(): the actor stops; its interval timers and the futures spawned
\* on its context are dropped.
Stopped(sess) ==
    [sess EXCEPT !.running = FALSE, !.interval_timers = 0, !.pending_ticks = 0,
                 !.edits = <<>>]

\* StreamHandler::handle, Close branch: ctx.close(reason); ctx.stop(). A
\* dropped edit future gives back the write guard it held.
HandleClose(s) ==
    /\ sessions[s].running
    /\ sessions' = [sessions EXCEPT ![s] =
          Stopped(Send([@ EXCEPT !.phase = "closing"], CloseFrame("Normal")))]
    /\ graph_lock' = IF graph_lock = s THEN "free" ELSE graph_lock
    /\ UNCHANGED <<http, speech, files, manager, call, settings, graph, node_map, node_map_lock, physics, gpu_nodes, budget>>

\* StreamHandler::handle, Err branch: ctx.close(Protocol), and no ctx.stop().
HandleError(s) ==
    /\ sessions[s].running
    /\ sessions[s].phase = "open"
    /\ sessions' = [sessions EXCEPT ![s] =
          Send([@ EXCEPT !.phase = "closing"], CloseFrame("Protocol"))]
    /\ UNCHANGED <<http, speech, files, manager, call, settings, graph, node_map, graph_lock, node_map_lock, physics, gpu_nodes, budget>>

\* StreamHandler::finished (the library's default): the inbound stream has
\* ended, ctx.stop().
Finished(s) ==
    /\ sessions[s].running
    /\ sessions' = [sessions EXCEPT ![s] = Stopped([@ EXCEPT !.phase = "closed"])]
    /\ graph_lock' = IF graph_lock = s THEN "free" ELSE graph_lock
    /\ UNCHANGED <<http, speech, files, manager, call, settings, graph, node_map, node_map_lock, physics, gpu_nodes, budget>>

Next ==
    \/ InitializeCachedGraph
    \/ UpdateGraphPeriodically
    \/ RefreshGraph
    \/ PhysicsAcquireGraph
    \/ PhysicsAcquireNodeMap
    \/ PhysicsStep
    \/ PhysicsWrite
    \/ PhysicsRelease
    \/ \E s \in Sessions : Connect(s)
    \/ \E s \in Sessions, type \in TextTypes : HandleText(s, type)
    \/ \E s \in Sessions : TimerTick(s)
    \/ \E s \in Sessions : TickRun(s)
    \/ \E s \in Sessions, frame \in Frames : HandleBinary(s, frame)
    \/ \E s \in Sessions, k \in 1..MaxInboundFrames : EditAcquireGraph(s, k)
    \/ \E s \in Sessions, k \in 1..MaxInboundFrames : EditApply(s, k)

Spec == Init /\ [][Next]_vars

(***************************************************************************)
(* Runs in which the content repository changes after startup, so that the *)
(* graph is built more than once, with the simulation loop and a client's  *)
(* inbound updates in between.                                             *)
(***************************************************************************)
RebuildInit ==
    /\ graph = NewGraphData
    /\ node_map = EmptyMap
    /\ graph_lock = "free"
    /\ node_map_lock = "free"
    /\ physics \in [pc : {"sleep"}, i : {0}, enabled : BOOLEAN, gpu : BOOLEAN]
    /\ gpu_nodes = <<>>
    /\ sessions = [s \in Sessions |-> NewSession]
    /\ call = [name |-> "", arg |-> <<>>, result |-> <<>>]
    /\ files = NewFiles
    /\ http = NewHttp
    /\ speech = NewSpeech
    /\ manager = NewManager
    /\ settings = [physics_enabled |-> physics.enabled,
                   binary_update_rate |-> DefaultUpdateRate]
    /\ budget = [builds |-> 0, physics_ticks |-> 0, inbound |-> 0,
                 session_ticks |-> 0, texts |-> 0, controls |-> 0, updates |-> 0,
                 max_builds |-> MaxRebuilds, max_texts |-> MaxTextMessages]

RebuildNext ==
    \/ InitializeCachedGraph
    \/ UpdateGraphPeriodically
    \/ RefreshGraph
    \/ PhysicsAcquireGraph
    \/ PhysicsAcquireNodeMap
    \/ PhysicsStep
    \/ PhysicsWrite
    \/ PhysicsRelease
    \/ \E s \in Sessions : Connect(s)
    \/ \E s \in Sessions, frame \in Frames : HandleBinary(s, frame)
    \/ \E s \in Sessions, k \in 1..MaxInboundFrames : EditAcquireGraph(s, k)
    \/ \E s \in Sessions, k \in 1..MaxInboundFrames : EditApply(s, k)
    \/ \E updates \in UpdateBatches : UpdateAcquireGraph(updates)
    \/ \E updates \in UpdateBatches : UpdateNodePositions(updates)

RebuildSpec == RebuildInit /\ [][RebuildNext]_vars

(***************************************************************************)
(* Runs over graphs of up to MaxWideNodes documents "1.md", "2.md", ..,    *)
(* whose frames are long enough to be compressed.                          *)
(***************************************************************************)
WideStores ==
    { [f \in {WithMd(to_string(k)) : k \in 1..n} |-> Metadata(f, EmptyMap)] : n \in 0..MaxWideNodes }

FrameNext ==
    \/ InitializeCachedGraphFrom(WideStores)
    \/ \E s \in Sessions : Connect(s)
    \/ \E s \in Sessions, type \in TextTypes : HandleText(s, type)
    \/ \E s \in Sessions : TimerTick(s)
    \/ \E s \in Sessions : TickRun(s)

FrameSpec == Init /\ [][FrameNext]_vars

(***************************************************************************)
(* Builds from stores of documents that reference each other.              *)
(***************************************************************************)
BuildNext == InitializeCachedGraphFrom(TopicStores)

BuildSpec == Init /\ [][BuildNext]_vars

(***************************************************************************)
(* utils/websocket_manager.rs                                              *)
(***************************************************************************)
\* handle_websocket: ws::start(WebSocketSession::new(state)), and the actor's
\* started(): its address is pushed to the manager's sessions.
HandleWebsocket(a) ==
    /\ manager.actors[a].state = "none"
    /\ manager' = [manager EXCEPT !.actors[a].state = "running",
                                  !.sessions = Append(@, a)]
    /\ UNCHANGED <<http, speech, files, call, graph, node_map, graph_lock, node_map_lock, physics,
                   gpu_nodes, sessions, settings, budget>>

\* Ok(ws::Message::Close(_)) => ctx.stop(), and the actor's stopped(): its
\* address is removed from the manager's sessions. The mailbox is dropped,
\* which resolves the requests waiting in it with an error.
WsClose(a) ==
    /\ manager.actors[a].state = "running"
    /\ manager' = [manager EXCEPT
                     !.actors[a].state = "stopped",
                     !.actors[a].mailbox = <<>>,
                     !.sessions = SelectSeq(@, LAMBDA session : session # a),
                     !.broadcast.pending = @ \ {a}]
    /\ UNCHANGED <<http, speech, files, call, graph, node_map, graph_lock, node_map_lock, physics,
                   gpu_nodes, sessions, settings, budget>>

\* broadcast_message, first line: the sessions registered now are cloned.
BroadcastStart(message) ==
    /\ manager.broadcast.state \in {"idle", "done"}
    /\ manager.broadcast.calls < MaxBroadcasts
    /\ manager' = [manager EXCEPT !.broadcast =
                      [state |-> "sending", message |-> message,
                       snapshot |-> manager.sessions, pending |-> {},
                       result |-> "", calls |-> @.calls + 1]]
    /\ UNCHANGED <<http, speech, files, call, graph, node_map, graph_lock, node_map_lock, physics,
                   gpu_nodes, sessions, settings, budget>>

\* session.send(BroadcastMessage(..)) for every session of the clone: the
\* message enters the mailbox of a running actor; for a stopped one the
\* request fails at once, and the next session is sent to all the same.
SendAll_StopAtFailure(actors, snapshot, message) ==
    LET alive(i) == \A j \in 1..i : actors[snapshot[j]].state = "running"
        reached == {snapshot[i] : i \in {k \in 1..Len(snapshot) : alive(k)}}
    IN [actors |-> [a \in DOMAIN actors |->
                       IF a \in reached
                       THEN [actors[a] EXCEPT !.mailbox = Append(@, message)]
                       ELSE actors[a]],
        pending |-> reached]

SendAll(actors, snapshot, message) ==
    LET reached == {snapshot[i] : i \in {k \in 1..Len(snapshot) :
                                           actors[snapshot[k]].state = "running"}}
    IN [actors |-> [a \in DOMAIN actors |->
                       IF a \in reached
                       THEN [actors[a] EXCEPT !.mailbox = Append(@, message)]
                       ELSE actors[a]],
        pending |-> reached]

BroadcastSend ==
    /\ manager.broadcast.state = "sending"
    /\ LET sent == SendAll(manager.actors, manager.broadcast.snapshot, manager.broadcast.message)
       IN manager' = [manager EXCEPT !.actors = sent.actors,
                                     !.broadcast.pending = sent.pending,
                                     !.broadcast.state = "awaiting"]
    /\ UNCHANGED <<http, speech, files, call, graph, node_map, graph_lock, node_map_lock, physics,
                   gpu_nodes, sessions, settings, budget>>

\* Handler<BroadcastMessage>::handle: ctx.text(msg.0); the request resolves.
WsHandleBroadcast(a) ==
    /\ manager.actors[a].state = "running"
    /\ Len(manager.actors[a].mailbox) > 0
    /\ manager' = [manager EXCEPT
                     !.actors[a].outbox = Append(@, Head(manager.actors[a].mailbox)),
                     !.actors[a].mailbox = Tail(@),
                     !.broadcast.pending = @ \ {a}]
    /\ UNCHANGED <<http, speech, files, call, graph, node_map, graph_lock, node_map_lock, physics,
                   gpu_nodes, sessions, settings, budget>>

\* join_all(futures).await has every request resolved, whatever its result;
\* broadcast_message returns Ok(()).
BroadcastComplete ==
    /\ manager.broadcast.state = "awaiting"
    /\ manager.broadcast.pending = {}
    /\ manager' = [manager EXCEPT !.broadcast.state = "done", !.broadcast.result = "Ok"]
    /\ UNCHANGED <<http, speech, files, call, graph, node_map, graph_lock, node_map_lock, physics,
                   gpu_nodes, sessions, settings, budget>>

ManagerNext ==
    \/ \E a \in WsAddrs : HandleWebsocket(a)
    \/ \E a \in WsAddrs : WsClose(a)
    \/ \E message \in BroadcastTexts : BroadcastStart(message)
    \/ BroadcastSend
    \/ \E a \in WsAddrs : WsHandleBroadcast(a)
    \/ BroadcastComplete
    \/ \E s \in Sessions : Connect(s)
    \/ \E s \in Sessions : HandleClose(s)

ManagerSpec == Init /\ [][ManagerNext]_vars

\* The arbiters run every actor that has a message and every future that can
\* make progress.
ManagerFairSpec ==
    /\ ManagerSpec
    /\ WF_vars(BroadcastSend)
    /\ \A a \in WsAddrs : WF_vars(WsHandleBroadcast(a))
    /\ WF_vars(BroadcastComplete)

(***************************************************************************)
(* The content repository and FileService::fetch_and_process_files.        *)
(***************************************************************************)
\* A commit to the content repository sets a document's content. The sha of
\* the listing is the hosting service's.
GitHubCommit(file_name, first_line) ==
    /\ files.revision < MaxRevisions
    /\ LET content == [first_line |-> first_line, revision |-> files.revision + 1]
       IN \E sha \in {BlobSha(content), calculate_sha1(content)} :
             files' = [files EXCEPT
                         !.github = Insert(@, file_name, [content |-> content, sha |-> sha]),
                         !.revision = @ + 1]
    /\ UNCHANGED <<http, speech, manager, call, graph, node_map, graph_lock, node_map_lock, physics,
                   gpu_nodes, sessions, settings, budget>>

\* A commit that deletes a document.
GitHubDelete(file_name) ==
    /\ files.revision < MaxRevisions
    /\ file_name \in DOMAIN files.github
    /\ files' = [files EXCEPT
                   !.github = [f \in DOMAIN @ \ {file_name} |-> @[f]],
                   !.revision = @ + 1]
    /\ UNCHANGED <<http, speech, manager, call, graph, node_map, graph_lock, node_map_lock, physics,
                   gpu_nodes, sessions, settings, budget>>

\* One run of fetch_and_process_files on the store loaded from the metadata
\* file (main.rs update_graph_periodically): entries of deleted files are
\* removed, the files whose sha differs are fetched, the public ones are
\* written and entered, and the store is saved. A failed listing, write or
\* save returns Err and the store of the metadata file stays as it was.
FetchRuns ==
    {[store |-> files.store, fetched |-> files.fetched, result |-> "Err", processed |-> {}]}
    \cup
    LET github == files.github
        kept == [f \in DOMAIN files.store \cap DOMAIN github |-> files.store[f]]
        files_to_process ==
            {f \in DOMAIN github : f \notin DOMAIN kept \/ kept[f].sha1 # github[f].sha}
    IN { LET done == ProcessFiles(order, outcomes, github, kept, files.fetched)
         IN [store |-> IF done.err THEN files.store ELSE done.store,
             fetched |-> done.fetched,
             result |-> IF done.err THEN "Err" ELSE "Ok",
             processed |-> IF done.err THEN {}
                           ELSE {f \in files_to_process :
                                   /\ outcomes[f] = "ok"
                                   /\ trim(github[f].content.first_line) = PublicLine}] :
         order \in Orderings(files_to_process),
         outcomes \in [files_to_process -> FileOutcomes] }

FetchAndProcessFiles ==
    /\ files.runs < MaxFetchRuns
    /\ \E run \in FetchRuns :
          files' = [files EXCEPT !.store = run.store, !.fetched = run.fetched,
                                 !.result = run.result, !.runs = @ + 1]
    /\ UNCHANGED <<http, speech, manager, call, graph, node_map, graph_lock, node_map_lock, physics,
                   gpu_nodes, sessions, settings, budget>>

FilesNext ==
    \/ \E file_name \in RepositoryFiles, first_line \in FirstLines :
          GitHubCommit(file_name, first_line)
    \/ \E file_name \in RepositoryFiles : GitHubDelete(file_name)
    \/ FetchAndProcessFiles

FilesSpec == Init /\ [][FilesNext]_vars

(***************************************************************************)
(* services/speech_service.rs                                              *)
(***************************************************************************)
SpeechMessages == {"hello"}

TTSProviders == {"OpenAI", "Sonata"}

Initialize == [type |-> "Initialize", arg |-> ""]

SendMessage(message) == [type |-> "SendMessage", arg |-> message]

Close == [type |-> "Close", arg |-> ""]

SetTTSProvider(provider) == [type |-> "SetTTSProvider", arg |-> provider]

SpeechCommands ==
    {Initialize, Close}
    \cup {SendMessage(message) : message \in SpeechMessages}
    \cup {SetTTSProvider(provider) : provider \in TTSProviders}

\* What the network and the child process do to a command: all goes well, the
\* connection is refused, or a write fails.
IoOutcomes == {"ok", "connect_failed", "send_failed"}

\* sender.lock().await.send(command).await: the command enters the channel;
\* when the receiver is gone it returns Err and nothing is queued.
Enqueue(service, command) ==
    IF service.worker = "running"
    THEN [service EXCEPT !.channel = Append(@, command), !.sent = Append(@, command)]
    ELSE service

\* initialize, send_message, close and set_tts_provider on the service of main.
SpeechSend(command) ==
    /\ Len(speech.services["main"].sent) < MaxCommands
    /\ speech.services["main"].worker = "running"
    /\ speech' = [speech EXCEPT !.services["main"] = Enqueue(@, command)]
    /\ UNCHANGED <<http, files, manager, call, graph, node_map, graph_lock, node_map_lock,
                   physics, gpu_nodes, sessions, settings, budget>>

\* A variant of Recv that takes the command sent last.
Recv_Newest(channel) ==
    [command |-> channel[Len(channel)], rest |-> SubSeq(channel, 1, Len(channel) - 1)]

\* receiver.recv().await
Recv(channel) == [command |-> Head(channel), rest |-> Tail(channel)]

\* One turn of the worker's loop: the body of the match for one command.
Handle(service, command, rest, io) ==
    LET provider == service.tts_provider
        Done(next, outcome) ==
            [next EXCEPT !.channel = rest,
                         !.log = Append(@, [command |-> command, provider |-> provider,
                                            outcome |-> outcome])]
    IN CASE command.type = "Initialize" ->
              IF provider # "OpenAI" THEN Done(service, "skipped")
              ELSE IF io = "ok" THEN Done([service EXCEPT !.ws_stream = "Some"], "connected")
              ELSE Done(service, io)
         [] command.type = "SendMessage" ->
              IF provider = "OpenAI"
              THEN IF service.ws_stream = "Some"
                   THEN Done(service, IF io = "ok" THEN "forwarded" ELSE "send_failed")
                   ELSE Done(service, "not_initialized")
              ELSE Done(service, IF io = "ok" THEN "sonata" ELSE "sonata_failed")
         [] command.type = "Close" ->
              Done([service EXCEPT !.ws_stream = "None", !.worker = "ended"], "closed")
         [] command.type = "SetTTSProvider" ->
              Done([service EXCEPT !.tts_provider = command.arg], "set")

\* The task spawned by start(): it takes the next command and handles it to
\* the end. No session is registered with the manager, the broadcast of the
\* audio reaches nobody.
WorkerStep(id, io) ==
    /\ speech.services[id].worker = "running"
    /\ Len(speech.services[id].channel) > 0
    /\ LET received == Recv(speech.services[id].channel)
       IN speech' = [speech EXCEPT !.services[id] =
                        Handle(@, received.command, received.rest, io)]
    /\ UNCHANGED <<http, files, manager, call, graph, node_map, graph_lock, node_map_lock,
                   physics, gpu_nodes, sessions, settings, budget>>

\* StreamHandler for SpeechWs, Text with a message and useOpenAI: a new
\* service is created and a future is spawned that sends it the provider and
\* then the message.
SpeechWsText(message, use_openai) ==
    /\ speech.texts < MaxSpeechTexts
    /\ speech.future = <<>>
    /\ speech' = [speech EXCEPT
                    !.services["ws"] = NewService,
                    !.future = <<SetTTSProvider(IF use_openai THEN "OpenAI" ELSE "Sonata"),
                                 SendMessage(message)>>,
                    !.texts = @ + 1]
    /\ UNCHANGED <<http, files, manager, call, graph, node_map, graph_lock, node_map_lock,
                   physics, gpu_nodes, sessions, settings, budget>>

\* The spawned future sends its next command.
FutureSend ==
    /\ Len(speech.future) > 0
    /\ speech' = [speech EXCEPT !.services["ws"] = Enqueue(@, Head(speech.future)),
                                !.future = Tail(@)]
    /\ UNCHANGED <<http, files, manager, call, graph, node_map, graph_lock, node_map_lock,
                   physics, gpu_nodes, sessions, settings, budget>>

SpeechNext ==
    \/ \E command \in SpeechCommands : SpeechSend(command)
    \/ \E id \in ServiceIds, io \in IoOutcomes : WorkerStep(id, io)
    \/ \E message \in SpeechMessages, use_openai \in BOOLEAN : SpeechWsText(message, use_openai)
    \/ FutureSend

SpeechSpec == Init /\ [][SpeechNext]_vars

(***************************************************************************)
(* The periodic update of the graph from the content repository.           *)
(***************************************************************************)
\* The metadata of the store, as the graph builder reads it. The documents of
\* the repository hold no reference.
StoreMetadata(store) == [f \in DOMAIN store |-> Metadata(f, EmptyMap)]

\* main.rs update_graph_periodically, one turn of its loop: the store is
\* loaded, fetch_and_process_files is run on it, and only when it returns Ok
\* with at least one processed file the contents go to the file cache, the
\* graph's metadata is replaced and the graph is rebuilt with the old
\* positions. No session is registered with the manager, the broadcast
\* reaches nobody.
UpdateGraphTurn ==
    /\ files.runs < MaxFetchRuns
    /\ graph_lock = "free"
    /\ \E run \in FetchRuns :
          /\ files' = [files EXCEPT
                         !.store = run.store, !.fetched = run.fetched,
                         !.result = run.result, !.runs = @ + 1,
                         !.file_cache = [f \in DOMAIN @ \cup run.processed |->
                                           IF f \in run.processed THEN files.github[f].content
                                           ELSE @[f]]]
          /\ IF run.result = "Ok" /\ run.processed # {}
             THEN \E built \in BuildResults(StoreMetadata(run.store)) :
                     graph' = IF built.ok
                              THEN PreservePositions(built.graph, graph)
                              ELSE [graph EXCEPT !.metadata = StoreMetadata(run.store)]
             ELSE graph' = graph
    /\ UNCHANGED <<http, speech, manager, call, node_map, graph_lock, node_map_lock, physics,
                   gpu_nodes, sessions, settings, budget>>

UpdateNext ==
    \/ \E file_name \in RepositoryFiles, first_line \in FirstLines :
          GitHubCommit(file_name, first_line)
    \/ \E file_name \in RepositoryFiles : GitHubDelete(file_name)
    \/ UpdateGraphTurn

UpdateSpec == Init /\ [][UpdateNext]_vars

(***************************************************************************)
(* The tasks that take both write guards, with the scheduling of the       *)
(* runtime: a task that can run is run, and a guard that is free goes to a *)
(* task that waits for it.                                                 *)
(***************************************************************************)
\* One document, one inbound frame and the update lists of one node.
LockStores == { [f \in {File7} |-> Metadata(f, EmptyMap)] }

LockFrames == { frame \in Frames : frame.nodes = <<Rec7a>> /\ frame.extra = 0 }

LockUpdates == { updates \in UpdateBatches : Len(updates) = 1 }

LockNext ==
    \/ InitializeCachedGraphFrom(LockStores)
    \/ PhysicsAcquireGraph
    \/ PhysicsAcquireNodeMap
    \/ PhysicsStep
    \/ PhysicsWrite
    \/ PhysicsRelease
    \/ \E s \in Sessions : Connect(s)
    \/ \E s \in Sessions : HandleText(s, "requestInitialData")
    \/ \E s \in Sessions : TimerTick(s)
    \/ \E s \in Sessions : TickRun(s)
    \/ \E s \in Sessions, frame \in LockFrames : HandleBinary(s, frame)
    \/ \E s \in Sessions, k \in 1..MaxInboundFrames : EditAcquireGraph(s, k)
    \/ \E s \in Sessions, k \in 1..MaxInboundFrames : EditApply(s, k)
    \/ \E updates \in LockUpdates : UpdateAcquireGraph(updates)
    \/ \E updates \in LockUpdates : UpdateNodePositions(updates)

\* The steps of tasks that have started: what the runtime does on its own.
LockProgress ==
    \/ PhysicsAcquireNodeMap
    \/ PhysicsStep
    \/ PhysicsWrite
    \/ PhysicsRelease
    \/ \E s \in Sessions : TickRun(s)
    \/ \E s \in Sessions, k \in 1..MaxInboundFrames : EditAcquireGraph(s, k)
    \/ \E s \in Sessions, k \in 1..MaxInboundFrames : EditApply(s, k)
    \/ \E updates \in LockUpdates : UpdateNodePositions(updates)

LockFairSpec == Init /\ [][LockNext]_vars /\ WF_vars(LockProgress)

(***************************************************************************)
(* Runs in which the client sends more than one text message.              *)
(***************************************************************************)
RepeatInit ==
    /\ graph = NewGraphData
    /\ node_map = EmptyMap
    /\ graph_lock = "free"
    /\ node_map_lock = "free"
    /\ physics \in [pc : {"sleep"}, i : {0}, enabled : BOOLEAN, gpu : BOOLEAN]
    /\ gpu_nodes = <<>>
    /\ sessions = [s \in Sessions |-> NewSession]
    /\ call = [name |-> "", arg |-> <<>>, result |-> <<>>]
    /\ files = NewFiles
    /\ http = NewHttp
    /\ speech = NewSpeech
    /\ manager = NewManager
    /\ settings = [physics_enabled |-> physics.enabled,
                   binary_update_rate |-> DefaultUpdateRate]
    /\ budget = [builds |-> 0, physics_ticks |-> 0, inbound |-> 0,
                 session_ticks |-> 0, texts |-> 0, controls |-> 0, updates |-> 0,
                 max_builds |-> MaxBuilds, max_texts |-> MaxRepeatedTexts]

RepeatNext ==
    \/ InitializeCachedGraph
    \/ \E s \in Sessions : Connect(s)
    \/ \E s \in Sessions, type \in TextTypes : HandleText(s, type)
    \/ \E s \in Sessions : TimerTick(s)
    \/ \E s \in Sessions : TickRun(s)

RepeatSpec == RepeatInit /\ [][RepeatNext]_vars

(***************************************************************************)
(* Calls of Node::set_file_size.                                           *)
(***************************************************************************)
\* The file sizes at which the mass steps, the sizes just below them, and the
\* sizes of the small and the large file of tests::test_mass_calculation.
FileSizes ==
    {MassSteps[k] : k \in 1..Len(MassSteps)}
    \cup {MassSteps[k] - 1 : k \in 2..Len(MassSteps)}
    \cup {FileSizeOf(File7), FileSizeOf(File07)}

SetFileSize(size) ==
    /\ call' = [name |-> "set_file_size", arg |-> size, result |-> set_file_size(size)]
    /\ UNCHANGED <<http, speech, files, manager, graph, node_map, graph_lock, node_map_lock, physics,
                   gpu_nodes, sessions, settings, budget>>

MassNext == \E size \in FileSizes : SetFileSize(size)

MassSpec == Init /\ [][MassNext]_vars

(***************************************************************************)
(* Calls of the case conversions of utils/case_conversion.rs.              *)
(***************************************************************************)
ToCamelCase(str) ==
    /\ call' = [name |-> "to_camel_case", arg |-> str, result |-> to_camel_case(str)]
    /\ UNCHANGED <<http, speech, files, manager, graph, node_map, graph_lock, node_map_lock, physics,
                   gpu_nodes, sessions, settings, budget>>

CaseNext == \E str \in Names : ToCamelCase(str)

CaseSpec == Init /\ [][CaseNext]_vars

(***************************************************************************)
(* GraphService::get_paginated_graph_data.                                 *)
(***************************************************************************)
\* iter().skip(n)
Skip(seq, n) == IF n >= Len(seq) THEN <<>> ELSE SubSeq(seq, n + 1, Len(seq))

\* iter().take(n)
Take(seq, n) == IF n >= Len(seq) THEN seq ELSE SubSeq(seq, 1, n)

\* edges.iter().filter(|e| node_ids.contains(&e.source) ||
\* node_ids.contains(&e.target)).cloned().collect()
RECURSIVE EdgesOf(_, _)
EdgesOf(edges, node_ids) ==
    IF Len(edges) = 0 THEN <<>>
    ELSE IF Head(edges).source \in node_ids \/ Head(edges).target \in node_ids
    THEN <<Head(edges)>> \o EdgesOf(Tail(edges), node_ids)
    ELSE EdgesOf(Tail(edges), node_ids)

\* (total_nodes as f32 / page_size as f32).ceil() as u32: the cast saturates,
\* infinity gives u32::MAX (max) and NaN gives 0.
total_pages_of(total_nodes, page_size) ==
    IF page_size = 0 THEN [max |-> total_nodes > 0, n |-> 0]
    ELSE [max |-> FALSE, n |-> (total_nodes + page_size - 1) \div page_size]

\* get_paginated_graph_data on graph g. page and page_size are u32 values
\* widened to usize, so the products fit; end - start is below zero when
\* start is beyond the node count: a build with overflow checks panics
\* there, a build without them wraps to a count that exceeds every length,
\* and take() of it keeps all that skip() left.
get_paginated_graph_data(g, page, page_size, overflow_checks) ==
    LET total_nodes == Len(g.nodes)
        start == page * page_size
        end == IF (page + 1) * page_size < total_nodes THEN (page + 1) * page_size
               ELSE total_nodes
        page_nodes == IF end >= start THEN Take(Skip(g.nodes, start), end - start)
                      ELSE Skip(g.nodes, start)
        node_ids == {page_nodes[i].id : i \in 1..Len(page_nodes)}
    IN IF end < start /\ overflow_checks
       THEN [panic |-> TRUE, nodes |-> <<>>, edges |-> <<>>, total_nodes |-> 0,
             total_edges |-> 0, total_pages |-> [max |-> FALSE, n |-> 0], current_page |-> 0]
       ELSE [panic |-> FALSE,
             nodes |-> page_nodes,
             edges |-> EdgesOf(g.edges, node_ids),
             total_nodes |-> total_nodes,
             total_edges |-> Len(g.edges),
             total_pages |-> total_pages_of(total_nodes, page_size),
             current_page |-> page]

\* Stores of three documents, each with or without a reference to c; pages
\* and page sizes.
PageStores ==
    { [f \in {FileA, FileB, FileC} |-> Metadata(f, tc[f])] :
        tc \in [{FileA, FileB, FileC} -> TopicCountsOver({TrimEndMd(FileC)}, {1})] }

Pages == 0..MaxPage

PageSizes == 0..MaxPageSize

GetPaginatedGraphData(page, page_size, overflow_checks) ==
    /\ graph_lock = "free"
    /\ call' = [name |-> "get_paginated_graph_data",
                arg |-> [page |-> page, page_size |-> page_size],
                result |-> get_paginated_graph_data(graph, page, page_size, overflow_checks)]
    /\ UNCHANGED <<http, speech, files, manager, graph, node_map, graph_lock, node_map_lock, physics,
                   gpu_nodes, sessions, settings, budget>>

PageNext ==
    \/ InitializeCachedGraphFrom(PageStores)
    \/ \E page \in Pages, page_size \in PageSizes, overflow_checks \in BOOLEAN :
          GetPaginatedGraphData(page, page_size, overflow_checks)

PageSpec == Init /\ [][PageNext]_vars

(***************************************************************************)
(* Runs that follow a session to its end: heartbeat, control frames, close *)
(* frames, protocol errors and the end of the inbound stream.              *)
(***************************************************************************)
SessionNext ==
    \/ InitializeCachedGraph
    \/ \E s \in Sessions : Connect(s)
    \/ \E s \in Sessions, type \in TextTypes : HandleText(s, type)
    \/ \E s \in Sessions : TimerTick(s)
    \/ \E s \in Sessions : TickRun(s)
    \/ \E s \in Sessions : Heartbeat(s)
    \/ \E s \in Sessions : HandlePing(s)
    \/ \E s \in Sessions : HandlePong(s)
    \/ \E s \in Sessions : HandleClose(s)
    \/ \E s \in Sessions : HandleError(s)
    \/ \E s \in Sessions : Finished(s)

SessionSpec == Init /\ [][SessionNext]_vars

(***************************************************************************)
(* Runs in which the settings are changed while the server is running.     *)
(***************************************************************************)
\* The values the settings consumed by the core may be given.
SettingsValues ==
    [physics_enabled : BOOLEAN, binary_update_rate : {DefaultUpdateRate, 2 * DefaultUpdateRate}]

\* settings_handler.rs update_settings (and update_user_settings of a power
\* user): under the write guard on the settings, merge the posted values and
\* save. Nothing else is written or notified.
UpdateSettings ==
    /\ \E new_settings \in SettingsValues \ {settings} : settings' = new_settings
    /\ UNCHANGED <<http, speech, files, manager, call, graph, node_map, graph_lock, node_map_lock, physics, gpu_nodes,
                   sessions, budget>>

SettingsNext ==
    \/ UpdateSettings
    \/ InitializeCachedGraph
    \/ PhysicsAcquireGraph
    \/ PhysicsAcquireNodeMap
    \/ PhysicsStep
    \/ PhysicsWrite
    \/ PhysicsRelease
    \/ \E s \in Sessions : Connect(s)
    \/ \E s \in Sessions, type \in TextTypes : HandleText(s, type)
    \/ \E s \in Sessions : TimerTick(s)
    \/ \E s \in Sessions : TickRun(s)

SettingsSpec == Init /\ [][SettingsNext]_vars

(***************************************************************************)
(* handlers/settings_handler.rs. Strings are sequences of tokens: a key is *)
(* one token, "," and " " are tokens.                                      *)
(***************************************************************************)
Pubkeys == {<<"k1">>, <<"k2">>}

EnvTokens == {"k1", ",", " "}

RECURSIVE TokenStrings(_)
TokenStrings(n) ==
    IF n = 0 THEN {<<>>}
    ELSE TokenStrings(n - 1) \cup {Append(str, t) : str \in TokenStrings(n - 1), t \in EnvTokens}

\* env::var("POWER_USER_PUBKEYS"): Err, or Ok of a string.
EnvValues == {EnvUnset} \cup {[set |-> TRUE, value |-> v] : v \in TokenStrings(MaxEnvLen)}

\* req.headers().get("X-Nostr-Pubkey"): None, a value that to_str() rejects,
\* or a value that is text.
HeaderValues ==
    {[kind |-> "missing", value |-> <<>>], [kind |-> "opaque", value |-> <<>>]}
    \cup {[kind |-> "text", value |-> v] : v \in Pubkeys \cup {<<>>}}

\* value.to_str().unwrap_or("").to_string()
PubkeyOf(header) == IF header.kind = "text" THEN header.value ELSE <<>>

\* The posted documents: one that serde_json::from_value rejects, and the
\* UISettings values.
Payloads ==
    {[valid |-> FALSE, ui_settings |-> <<>>]}
    \cup {[valid |-> TRUE, ui_settings |-> v] : v \in SettingsValues}

\* str::split(','): the pieces between the separators, an empty string gives
\* one empty piece.
RECURSIVE split(_)
split(str) ==
    IF \A i \in 1..Len(str) : str[i] # ","
    THEN <<str>>
    ELSE LET i == CHOOSE k \in 1..Len(str) :
                     str[k] = "," /\ \A j \in 1..(k - 1) : str[j] # ","
         IN <<SubSeq(str, 1, i - 1)>> \o split(SubSeq(str, i + 1, Len(str)))

\* verify_power_user: the variable split at the commas, each piece trimmed;
\* the result is whether the list contains the pubkey.
verify_power_user(pubkey, env) ==
    LET power_user_pubkeys ==
            IF env.set THEN [i \in 1..Len(split(env.value)) |-> trim(split(env.value)[i])]
            ELSE <<>>
    IN \E i \in 1..Len(power_user_pubkeys) : power_user_pubkeys[i] = pubkey

\* The power-user path of both handlers: under the write guard,
\* merge_into_settings writes the posted values into the shared settings,
\* then save() writes the settings file; when save fails the handler answers
\* 500.
SaveGlobal(handler, ui_settings, save_ok) ==
    /\ settings' = ui_settings
    /\ http' = [http EXCEPT
                  !.settings_file = IF save_ok THEN <<ui_settings>> ELSE @,
                  !.handler = handler,
                  !.status = IF save_ok THEN 200 ELSE 500,
                  !.requests = @ + 1]

Answer(handler, status) ==
    /\ http' = [http EXCEPT !.handler = handler, !.status = status, !.requests = @ + 1]
    /\ settings' = settings

\* update_settings (POST /user-settings)
update_settings(header, payload, save_ok) ==
    /\ http.requests < MaxRequests
    /\ IF header.kind = "missing" THEN Answer("update_settings", 400)
       ELSE IF ~verify_power_user(PubkeyOf(header), http.power_user_pubkeys)
       THEN Answer("update_settings", 403)
       ELSE IF ~payload.valid THEN Answer("update_settings", 400)
       ELSE SaveGlobal("update_settings", payload.ui_settings, save_ok)
    /\ UNCHANGED <<speech, files, manager, call, graph, node_map, graph_lock, node_map_lock,
                   physics, gpu_nodes, sessions, budget>>

\* update_user_settings (POST /user-settings/sync): a power user updates the
\* global settings, any other user the file of their own settings.
update_user_settings(header, payload, save_ok) ==
    /\ http.requests < MaxRequests
    /\ IF header.kind = "missing" THEN Answer("update_user_settings", 400)
       ELSE IF ~payload.valid THEN Answer("update_user_settings", 400)
       ELSE IF verify_power_user(PubkeyOf(header), http.power_user_pubkeys)
       THEN SaveGlobal("update_user_settings", payload.ui_settings, save_ok)
       ELSE /\ http' = [http EXCEPT
                          !.user_settings =
                              IF save_ok THEN Insert(@, PubkeyOf(header), payload.ui_settings)
                              ELSE @,
                          !.handler = "update_user_settings",
                          !.status = IF save_ok THEN 200 ELSE 500,
                          !.requests = @ + 1]
            /\ settings' = settings
    /\ UNCHANGED <<speech, files, manager, call, graph, node_map, graph_lock, node_map_lock,
                   physics, gpu_nodes, sessions, budget>>

HandlerInit ==
    /\ graph = NewGraphData
    /\ node_map = EmptyMap
    /\ graph_lock = "free"
    /\ node_map_lock = "free"
    /\ physics \in [pc : {"sleep"}, i : {0}, enabled : BOOLEAN, gpu : {FALSE}]
    /\ gpu_nodes = <<>>
    /\ sessions = [s \in Sessions |-> NewSession]
    /\ call = [name |-> "", arg |-> <<>>, result |-> <<>>]
    /\ files = NewFiles
    /\ \E env \in EnvValues : http = [NewHttp EXCEPT !.power_user_pubkeys = env]
    /\ speech = NewSpeech
    /\ manager = NewManager
    /\ settings = [physics_enabled |-> physics.enabled,
                   binary_update_rate |-> DefaultUpdateRate]
    /\ budget = [builds |-> 0, physics_ticks |-> 0, inbound |-> 0,
                 session_ticks |-> 0, texts |-> 0, controls |-> 0, updates |-> 0,
                 max_builds |-> MaxBuilds, max_texts |-> MaxTextMessages]

HandlerNext ==
    \/ \E header \in HeaderValues, payload \in Payloads, save_ok \in BOOLEAN :
          update_settings(header, payload, save_ok)
    \/ \E header \in HeaderValues, payload \in Payloads, save_ok \in BOOLEAN :
          update_user_settings(header, payload, save_ok)

HandlerSpec == HandlerInit /\ [][HandlerNext]_vars

(***************************************************************************)
(* Properties.                                                             *)
(***************************************************************************)
Key7 == <<"7">>

\* The mass a build gives the node of a document.
BuildMass(id) == set_file_size(FileSizeOf(WithMd(id)))

LastSent(s) == sessions[s].outbox[Len(sessions[s].outbox)]

\* The frame a step of session s has sent, or the empty list.
FrameSent(s) ==
    IF Len(sessions'[s].outbox) > Len(sessions[s].outbox)
          /\ sessions'[s].outbox[Len(sessions'[s].outbox)].kind = "binary"
    THEN sessions'[s].outbox[Len(sessions'[s].outbox)].nodes
    ELSE <<>>

\* C1: whatever inbound binary updates the session has applied, and whatever
\* sampling ticks ran in between, every node of the graph's node sequence
\* and every entry of the node map has the mass and the flags its build gave it.
C1_MassAndFlagsKept ==
    /\ \A i \in 1..Len(graph.nodes) :
          /\ graph.nodes[i].data.mass = BuildMass(graph.nodes[i].id)
          /\ graph.nodes[i].data.flags = DefaultFlags
    /\ \A id \in DOMAIN node_map :
          /\ node_map[id].data.mass = BuildMass(id)
          /\ node_map[id].data.flags = DefaultFlags

\* An inbound update has rewritten node "7" in the map and in the sequence,
\* and the session has sent a sampled frame.
C1_Witness ==
    \E s \in Sessions :
        /\ sessions[s].update_count > 0
        /\ Key7 \in DOMAIN node_map
        /\ node_map[Key7].data.velocity = VB
        /\ \E i \in 1..Len(graph.nodes) :
              graph.nodes[i].id = Key7 /\ graph.nodes[i].data.velocity = VB

\* C2: a session's sample of the node sequence is never taken between the
\* first and the last write of one physics step's write-back: the sample
\* shows all records of the step or none of them.
C2_NoPartialStep ==
    [][\A s \in Sessions :
          TickRun(s) =>
             ~(physics.pc = "write" /\ 0 < physics.i /\ physics.i < Len(graph.nodes))]_vars

\* A physics step over two nodes is complete and the session's latest frame
\* carries both of its records.
C2_Witness ==
    \E s \in Sessions :
        /\ physics.pc = "sleep"
        /\ Len(gpu_nodes) = 2
        /\ Len(sessions[s].outbox) > 0
        /\ LastSent(s).kind = "binary"
        /\ Len(LastSent(s).nodes) = 2
        /\ \A i \in 1..2 :
              /\ LastSent(s).nodes[i].position = gpu_nodes[i].position
              /\ LastSent(s).nodes[i].velocity = gpu_nodes[i].velocity

\* C3: whenever no write guard on the graph is held, the node map has
\* exactly the ids of the node sequence, and every entry's physics record
\* equals the record of the node of that id in the sequence.
C3_MapMirrorsSequence ==
    graph_lock = "free" =>
        /\ DOMAIN node_map = NodeIds(graph)
        /\ \A i \in 1..Len(graph.nodes) :
              node_map[graph.nodes[i].id].data = graph.nodes[i].data

\* C4: an inbound binary frame of more than two records is answered with
\* an error text and nothing else happens: no edit is started, graph and node
\* map are as before, the session's last-sent maps and total_bytes_sent are
\* as before, and the session stays open.
C4_OversizeFrameRejected ==
    [][\A s \in Sessions, frame \in Frames :
          (/\ HandleBinary(s, frame)
           /\ decode_node_data(frame).ok
           /\ Len(decode_node_data(frame).nodes) > 2)
          => /\ sessions'[s].outbox =
                   Append(sessions[s].outbox, ErrorMessage("Too many nodes in update"))
             /\ sessions'[s].edits = sessions[s].edits
             /\ graph' = graph
             /\ node_map' = node_map
             /\ sessions'[s].last_sent_positions = sessions[s].last_sent_positions
             /\ sessions'[s].last_sent_velocities = sessions[s].last_sent_velocities
             /\ sessions'[s].total_bytes_sent = sessions[s].total_bytes_sent
             /\ sessions'[s].phase = "open"]_vars

\* The session has answered a frame of three records with the error text.
C4_Witness ==
    \E s \in Sessions :
        /\ Len(sessions[s].outbox) > 0
        /\ LastSent(s) = ErrorMessage("Too many nodes in update")
        /\ sessions[s].edits = <<>>
        /\ sessions[s].running
        /\ Len(graph.nodes) > 0

\* C5: when the session applies an inbound frame of at most two records,
\* then for every record whose stringified id names a node of the graph (the
\* last such record, when two records of the frame name the same node) the
\* node's position and velocity, in the node map and in the node sequence,
\* are the record's afterwards.
C5_EditTakesRecordValues ==
    [][\A s \in Sessions, k \in 1..MaxInboundFrames :
          EditApply(s, k) =>
            LET nodes_vec == sessions[s].edits[k].nodes_vec
            IN \A j \in 1..Len(nodes_vec) :
                 LET id == to_string(nodes_vec[j].id)
                 IN (/\ id \in NodeIds(graph)
                     /\ \A j2 \in (j + 1)..Len(nodes_vec) : to_string(nodes_vec[j2].id) # id)
                    => /\ id \in DOMAIN node_map'
                       /\ node_map'[id].data.position = nodes_vec[j].position
                       /\ node_map'[id].data.velocity = nodes_vec[j].velocity
                       /\ \A i \in 1..Len(graph'.nodes) :
                             graph'.nodes[i].id = id =>
                                /\ graph'.nodes[i].data.position = nodes_vec[j].position
                                /\ graph'.nodes[i].data.velocity = nodes_vec[j].velocity]_vars

\* The node keys, positions and velocities the deadband filter is asked about.
CandidateKeys == {<<"7">>, <<"9">>}

CandidatePositions == {P0, PA, PB}

CandidateVelocities == {V0, VA, VB}

\* The distance between a and b is at most d.
WithinDistance(a, b, d) == \E r \in 0..d : r * r >= DistanceSquared(a, b)

\* C6: has_node_changed_significantly is true exactly when the session has
\* no last-sent value for the node, or the new position is farther than
\* POSITION_DEADBAND from the last-sent one, or the new velocity differs from
\* the last-sent one by more than VELOCITY_DEADBAND; a change of exactly the
\* threshold does not count.
C6_DeadbandStrict ==
    \A s \in Sessions, key \in CandidateKeys,
       p \in CandidatePositions, v \in CandidateVelocities :
        has_node_changed_significantly(sessions[s], key, p, v)
          <=> \/ key \notin DOMAIN sessions[s].last_sent_positions
              \/ ~WithinDistance(p, sessions[s].last_sent_positions[key], POSITION_DEADBAND)
              \/ ~WithinDistance(v, sessions[s].last_sent_velocities[key], VELOCITY_DEADBAND)

\* Node 7 was last sent at P0 with zero velocity; PA is exactly
\* POSITION_DEADBAND away and VA differs by exactly VELOCITY_DEADBAND, and
\* the filter does not let the node through, while PB passes.
C6_Witness ==
    \E s \in Sessions :
        /\ Key7 \in DOMAIN sessions[s].last_sent_positions
        /\ sessions[s].last_sent_positions[Key7] = P0
        /\ sessions[s].last_sent_velocities[Key7] = V0
        /\ DistanceSquared(PA, P0) = POSITION_DEADBAND * POSITION_DEADBAND
        /\ ~has_node_changed_significantly(sessions[s], Key7, PA, VA)
        /\ has_node_changed_significantly(sessions[s], Key7, PB, V0)

C8_LastSentFollowsFrame ==
    [][\A s \in Sessions :
          TickRun(s) =>
            LET frame == FrameSent(s)
                sent_keys == {to_string(frame[i].id) : i \in 1..Len(frame)}
            IN /\ \A i \in 1..Len(frame) :
                     /\ sessions'[s].last_sent_positions[to_string(frame[i].id)] = frame[i].position
                     /\ sessions'[s].last_sent_velocities[to_string(frame[i].id)] = frame[i].velocity
               /\ DOMAIN sessions'[s].last_sent_positions
                     = DOMAIN sessions[s].last_sent_positions \cup sent_keys
               /\ \A key \in DOMAIN sessions[s].last_sent_positions \ sent_keys :
                     /\ sessions'[s].last_sent_positions[key] = sessions[s].last_sent_positions[key]
                     /\ sessions'[s].last_sent_velocities[key] = sessions[s].last_sent_velocities[key]
               /\ DOMAIN sessions'[s].last_sent_positions
                     = DOMAIN sessions'[s].last_sent_velocities]_vars

\* C9: a tick at which no sampled node passes the deadband filter sends
\* nothing and leaves the session's last-sent maps and its transfer counters
\* (total_bytes_sent, update_count, nodes_sent_count) as they were.
C9_NothingChangedNothingSent ==
    [][\A s \in Sessions :
          (/\ TickRun(s)
           /\ \A i \in 1..Len(CopyOut(graph.nodes)) :
                 ~has_node_changed_significantly(sessions[s],
                     to_string(CopyOut(graph.nodes)[i].id),
                     CopyOut(graph.nodes)[i].position, CopyOut(graph.nodes)[i].velocity))
          => /\ sessions'[s].outbox = sessions[s].outbox
             /\ sessions'[s].last_sent_positions = sessions[s].last_sent_positions
             /\ sessions'[s].last_sent_velocities = sessions[s].last_sent_velocities
             /\ sessions'[s].total_bytes_sent = sessions[s].total_bytes_sent
             /\ sessions'[s].update_count = sessions[s].update_count
             /\ sessions'[s].nodes_sent_count = sessions[s].nodes_sent_count]_vars

\* Node 7 was sent at P0; a physics step has moved it by exactly the
\* deadbands; both ticks of the session have run and only one frame was sent.
C9_Witness ==
    \E s \in Sessions :
        /\ sessions[s].update_count = 1
        /\ sessions[s].pending_ticks = 0
        /\ budget.session_ticks = 2
        /\ budget.physics_ticks = 1
        /\ physics.pc = "sleep"
        /\ LastSent(s).kind = "binary"
        /\ LastSent(s).nodes = <<[id |-> 7, position |-> P0, velocity |-> V0]>>
        /\ Len(graph.nodes) = 1
        /\ graph.nodes[1].id = Key7
        /\ graph.nodes[1].data.position = PA
        /\ graph.nodes[1].data.velocity = VA

\* C10: every binary frame in a session's output comes after the
\* "updatesStarted" reply to a requestInitialData message of that session.
C10_NoFrameBeforeRequest ==
    \A s \in Sessions :
        \A i \in 1..Len(sessions[s].outbox) :
            sessions[s].outbox[i].kind = "binary" =>
                \E j \in 1..(i - 1) : sessions[s].outbox[j].type = "updatesStarted"

\* The session has sent a binary frame.
C10_Witness ==
    \E s \in Sessions :
        \E i \in 1..Len(sessions[s].outbox) : sessions[s].outbox[i].kind = "binary"

\* The binary frames of a session's output, in the order they were sent.
BinaryFrames(s) == SelectSeq(sessions[s].outbox, LAMBDA m : m.kind = "binary")

C14_UnknownTypeAnswered ==
    [][\A s \in Sessions :
          HandleText(s, "unknown") =>
             /\ Len(sessions'[s].outbox) = Len(sessions[s].outbox) + 1
             /\ sessions'[s].outbox[Len(sessions'[s].outbox)].kind = "text"
             /\ sessions'[s].outbox[Len(sessions'[s].outbox)].type = "error"
             /\ sessions'[s].phase = sessions[s].phase
             /\ sessions'[s].interval_timers = sessions[s].interval_timers
             /\ graph' = graph
             /\ node_map' = node_map]_vars

\* C17: a device error inside calculate_layout (upload, step or read-back)
\* skips the tick and is not fatal: the step that fails leaves the graph's
\* nodes and the node map exactly as they were, and the loop's next step
\* releases both write guards, changes neither graph nor map, and is back at
\* the loop head.
C17_DeviceErrorSkipsTick ==
    [][/\ (/\ physics.pc = "locked" /\ physics.enabled /\ physics.gpu
            /\ physics'.pc = "release")
          => /\ graph' = graph
             /\ node_map' = node_map
             /\ graph_lock' = "physics"
             /\ node_map_lock' = "physics"
       /\ (physics.pc = "release" /\ physics' # physics)
          => /\ graph' = graph
             /\ node_map' = node_map
             /\ graph_lock' = "free"
             /\ node_map_lock' = "free"
             /\ physics'.pc = "sleep"]_vars

\* A tick over a graph of two nodes, with physics enabled and a device, has
\* failed in the device: the loop is asleep again, both guards are free, the
\* nodes are where the build put them.
C17_Witness ==
    /\ physics.pc = "sleep"
    /\ physics.enabled
    /\ physics.gpu
    /\ budget.physics_ticks = 1
    /\ gpu_nodes = <<>>
    /\ graph_lock = "free"
    /\ node_map_lock = "free"
    /\ Len(graph.nodes) = 2
    /\ \A i \in 1..2 : graph.nodes[i].data.position = P0 /\ graph.nodes[i].data.velocity = V0

\* C18: when the compute device failed to initialize (the loop has no
\* device) and physics is enabled, a tick still performs a physics step on the
\* host: the tick body computes new records and goes on to write them back.
C18_HostFallbackSteps ==
    [][(/\ physics.pc = "locked"
        /\ physics.enabled
        /\ ~physics.gpu
        /\ physics' # physics)
       => physics'.pc = "write"]_vars

\* C16: no task other than the tick body of the simulation loop holds a
\* write guard on the graph or on the node map across an await point: at
\* every point where tasks are suspended each of the two write guards is
\* free or held by the simulation loop.
C16_OnlyPhysicsHoldsAcrossAwait ==
    /\ graph_lock \in {"free", "physics"}
    /\ node_map_lock \in {"free", "physics"}

\* C20: on every rebuild of the graph each node whose document survives
\* keeps the position and the velocity it had before the rebuild, and a node
\* that is new gets an initial position of the Fibonacci-sphere initializer
\* and zero velocity.
C20_RebuildKeepsRecords ==
    [][UpdateGraphPeriodically =>
          \A i \in 1..Len(graph'.nodes) :
             IF graph'.nodes[i].id \in NodeIds(graph)
             THEN /\ graph'.nodes[i].data.position =
                        MirrorOf(graph)[graph'.nodes[i].id].data.position
                  /\ graph'.nodes[i].data.velocity =
                        MirrorOf(graph)[graph'.nodes[i].id].data.velocity
             ELSE /\ graph'.nodes[i].data.position \in InitPositions
                  /\ graph'.nodes[i].data.velocity = V0]_vars

\* C15: an inbound binary frame of length L is accepted exactly when L is
\* a multiple of 26 and L / 26 <= 2. Every other frame is answered with an
\* error text, starts no edit, changes neither graph nor node map, and the
\* session stays open. An accepted frame of length 0 is the empty list, and
\* applying it changes nothing: graph and node map are as before.
C15_FrameAcceptance ==
    [][\A s \in Sessions :
          /\ \A frame \in Frames :
                HandleBinary(s, frame) =>
                   IF FrameLength(frame) % RecordSize = 0
                         /\ FrameLength(frame) \div RecordSize <= MaxInboundNodes
                   THEN /\ Len(sessions'[s].edits) = Len(sessions[s].edits) + 1
                        /\ sessions'[s].outbox = sessions[s].outbox
                   ELSE /\ Len(sessions'[s].outbox) = Len(sessions[s].outbox) + 1
                        /\ sessions'[s].outbox[Len(sessions'[s].outbox)].type = "error"
                        /\ sessions'[s].edits = sessions[s].edits
                        /\ graph' = graph
                        /\ node_map' = node_map
                        /\ sessions'[s].phase = "open"
          /\ \A k \in 1..MaxInboundFrames :
                (EditApply(s, k) /\ sessions[s].edits[k].nodes_vec = <<>>)
                   => /\ graph' = graph
                      /\ node_map' = node_map]_vars

\* C19: a change of the settings takes effect no later than the next
\* tick after it: a physics tick that starts runs with the physics block
\* (here its enabled flag) the settings hold at that moment, and a session
\* tick that fires is spaced by the binary update rate the settings hold at
\* that moment.
C19_SettingsUsedByNextTick ==
    [][/\ PhysicsAcquireGraph => physics.enabled = settings.physics_enabled
       /\ \A s \in Sessions :
             TimerTick(s) =>
                sessions[s].update_interval = update_interval_of(settings.binary_update_rate)]_vars

\* The client timeout, in heartbeat periods.
ClientTimeout == CLIENT_TIMEOUT \div HEARTBEAT_INTERVAL

\* C12: a session that has received no frame from its client (ping, pong,
\* text or binary) for longer than the client timeout is closing with close
\* code Protocol.
C12_SilentSessionCloses ==
    \A s \in Sessions :
        (/\ sessions[s].phase # "none"
         /\ sessions[s].clock - sessions[s].last_inbound > ClientTimeout)
        => /\ sessions[s].phase # "open"
           /\ \E i \in 1..Len(sessions[s].outbox) :
                 sessions[s].outbox[i] = CloseFrame("Protocol")

\* The number of binary frames and heartbeat pings in a session's output.
FramesAndPings(sess) ==
    Cardinality({i \in 1..Len(sess.outbox) : sess.outbox[i].kind \in {"binary", "ping"}})

\* C13: a session goes to Closing on a close frame of the client and on a
\* transport or protocol error, and a session in Closing produces no further
\* physics frame and no further heartbeat ping.
C13_ClosingCancelsTimers ==
    [][\A s \in Sessions :
          /\ (HandleClose(s) \/ HandleError(s)) => sessions'[s].phase = "closing"
          /\ sessions[s].phase = "closing"
                => FramesAndPings(sessions'[s]) = FramesAndPings(sessions[s])]_vars

\* C24: at every tick of a session every record of the frame sent has its
\* id in 0..65535, and the nodes the tick encodes have pairwise different
\* numeric ids, so that no two nodes of the graph go out under one id or
\* share one last-sent entry.
C24_WireIdsUnique ==
    [][\A s \in Sessions :
          TickRun(s) =>
            /\ \A i \in 1..Len(FrameSent(s)) :
                  FrameSent(s)[i].id \in 0..MAX_U16_VALUE
            /\ \A i, j \in 1..Len(CopyOut(graph.nodes)) :
                  i # j => CopyOut(graph.nodes)[i].id # CopyOut(graph.nodes)[j].id]_vars

\* C25: GraphService::update_node_positions, like the binary handler of
\* the session, leaves mass and flags of every map entry and of every graph
\* node as they were, while it overwrites position and velocity.
C25_UpdateKeepsMassAndFlags ==
    [][(\E updates \in UpdateBatches : UpdateNodePositions(updates))
       => /\ \A id \in DOMAIN node_map :
                /\ node_map'[id].data.mass = node_map[id].data.mass
                /\ node_map'[id].data.flags = node_map[id].data.flags
          /\ \A i \in 1..Len(graph.nodes) :
                /\ graph'.nodes[i].data.mass = graph.nodes[i].data.mass
                /\ graph'.nodes[i].data.flags = graph.nodes[i].data.flags]_vars

\* The length of the payload a step of session s has sent as a binary frame.
PayloadSent(s) == sessions'[s].outbox[Len(sessions'[s].outbox)].len

\* C29: the payload a tick sends is the compressed form only when the
\* encoded frame is longer than 100 bytes and the compressed form is strictly
\* shorter, and is the encoded frame otherwise; so the payload is never
\* longer than the encoded frame, and total_bytes_sent grows by exactly the
\* length of the payload.
C29_CompressOnlyIfSmaller ==
    [][\A s \in Sessions :
          (TickRun(s) /\ Len(FrameSent(s)) > 0) =>
             LET encoded_len == encode_node_data(FrameSent(s)).len
             IN /\ PayloadSent(s) <= encoded_len
                /\ encoded_len <= CompressionThreshold => PayloadSent(s) = encoded_len
                /\ PayloadSent(s) \in {encoded_len} \cup ZlibLengths(encoded_len)
                /\ sessions'[s].total_bytes_sent
                      = sessions[s].total_bytes_sent + PayloadSent(s)
                /\ sessions'[s].last_transfer_size = PayloadSent(s)
                /\ \A compressed_len \in ZlibLengths(encoded_len) :
                      maybe_compress(encoded_len, compressed_len) =
                         IF encoded_len > CompressionThreshold /\ compressed_len < encoded_len
                         THEN compressed_len
                         ELSE encoded_len]_vars

\* A session has sent a frame of more than 100 encoded bytes in its
\* compressed, shorter form, and has counted the bytes of that form.
C29_Witness ==
    \E s \in Sessions :
        /\ Len(BinaryFrames(s)) = 1
        /\ RecordSize * Len(BinaryFrames(s)[1].nodes) > CompressionThreshold
        /\ BinaryFrames(s)[1].len < RecordSize * Len(BinaryFrames(s)[1].nodes)
        /\ sessions[s].total_bytes_sent = BinaryFrames(s)[1].len

\* A string in camelCase or PascalCase: letters and digits only, and, for
\* camelCase, a first letter in lower case.
IsLetterOrDigit(c) == is_ascii_lowercase(c) \/ is_ascii_uppercase(c) \/ IsDigit(c)

IsPascalOrCamel(str) ==
    /\ Len(str) > 0
    /\ is_ascii_lowercase(str[1]) \/ is_ascii_uppercase(str[1])
    /\ \A k \in 1..Len(str) : IsLetterOrDigit(str[k])

\* C30: to_camel_case lower-cases the first letter and keeps the capitals
\* that mark word boundaries: on PascalCase and camelCase input the result is
\* the input with its first letter in lower case, so that it is the identity
\* on camelCase input.
C30_CamelCaseKeepsBoundaries ==
    (call.name = "to_camel_case" /\ IsPascalOrCamel(call.arg))
       => call.result = <<to_ascii_lowercase(call.arg[1])>> \o Tail(call.arg)

RefCount(metadata, S, T) ==
    IF WithMd(S) \in DOMAIN metadata /\ T \in DOMAIN metadata[WithMd(S)].topic_counts
    THEN metadata[WithMd(S)].topic_counts[T]
    ELSE 0

EdgeEnds(e) == {e.source, e.target}

\* C22: in a built graph every edge endpoint is the id of a node, no edge has
\* equal endpoints, node ids are unique, there is at most one edge per
\* unordered pair of nodes, and the edge of the pair {S, T} exists when one of
\* the two references the other and weighs c_ST + c_TS.
C22_EdgesFollowReferences ==
    budget.builds > 0 =>
      /\ \A i \in 1..Len(graph.edges) :
            /\ EdgeEnds(graph.edges[i]) \subseteq NodeIds(graph)
            /\ graph.edges[i].source # graph.edges[i].target
            /\ graph.edges[i].weight =
                  RefCount(graph.metadata, graph.edges[i].source, graph.edges[i].target)
                  + RefCount(graph.metadata, graph.edges[i].target, graph.edges[i].source)
      /\ \A i, j \in 1..Len(graph.nodes) : i # j => graph.nodes[i].id # graph.nodes[j].id
      /\ \A i, j \in 1..Len(graph.edges) :
            i # j => EdgeEnds(graph.edges[i]) # EdgeEnds(graph.edges[j])
      /\ \A S, T \in NodeIds(graph) :
            (S # T /\ RefCount(graph.metadata, S, T) + RefCount(graph.metadata, T, S) > 0)
               => \E i \in 1..Len(graph.edges) : EdgeEnds(graph.edges[i]) = {S, T}

\* a.md references b twice, b.md references a once: one edge (a, b) of weight 3.
C22_Witness ==
    /\ budget.builds > 0
    /\ DOMAIN graph.metadata = {FileA, FileB}
    /\ RefCount(graph.metadata, TrimEndMd(FileA), TrimEndMd(FileB)) = 2
    /\ RefCount(graph.metadata, TrimEndMd(FileB), TrimEndMd(FileA)) = 1
    /\ graph.edges = <<[source |-> TrimEndMd(FileA), target |-> TrimEndMd(FileB), weight |-> 3]>>

IdsOf(nodes) == [i \in 1..Len(nodes) |-> nodes[i].id]

\* The graph in service is an output of a build from the store m.
BuiltFrom(g, m) ==
    \E built \in BuiltGraphs(m) : IdsOf(built.nodes) = IdsOf(g.nodes) /\ built.edges = g.edges

PairLess(e1, e2) ==
    \/ StrLess(e1.source, e2.source)
    \/ e1.source = e2.source /\ StrLess(e1.target, e2.target)

\* C23: a rebuild from the store the graph in service was built from gives
\* the same node sequence and the same edge sequence, the edges sorted by
\* endpoint pair.
C23_BuildIsDeterministic ==
    [][\A m \in MetadataStores : \A built \in BuildResults(m) :
          (built.ok /\ BuiltFrom(graph, m) /\ UpdateGraphWith(m, built))
             => /\ IdsOf(graph'.nodes) = IdsOf(graph.nodes)
                /\ graph'.edges = graph.edges
                /\ \A i \in 1..(Len(graph'.edges) - 1) :
                      PairLess(graph'.edges[i], graph'.edges[i + 1])]_vars

\* C26: every entry of the metadata store describes a document whose most
\* recently fetched content has the public marker as its first line, white
\* space around the marker aside.
C26_OnlyPublicAdmitted ==
    \A file_name \in DOMAIN files.store :
       /\ file_name \in DOMAIN files.fetched
       /\ trim(files.fetched[file_name].first_line) = PublicLine

\* C27: a broadcast reaches every session of the registry at the time of the
\* call that is still running when the call returns, whatever became of the
\* other sessions, and the call returns, with Ok.
C27_Delivered ==
    manager.broadcast.state = "done" =>
      /\ manager.broadcast.result = "Ok"
      /\ \A i \in 1..Len(manager.broadcast.snapshot) :
            manager.actors[manager.broadcast.snapshot[i]].state = "running"
               => \E k \in 1..Len(manager.actors[manager.broadcast.snapshot[i]].outbox) :
                     manager.actors[manager.broadcast.snapshot[i]].outbox[k]
                        = manager.broadcast.message

C27_BroadcastIsBestEffort ==
    /\ []C27_Delivered
    /\ (manager.broadcast.state = "sending") ~> (manager.broadcast.state = "done")

\* A broadcast to two sessions has returned; the first of them had stopped
\* before the message was sent, the second has the text.
C27_Witness ==
    /\ manager.broadcast.state = "done"
    /\ Len(manager.broadcast.snapshot) = 2
    /\ manager.actors[manager.broadcast.snapshot[1]].state = "stopped"
    /\ manager.actors[manager.broadcast.snapshot[1]].outbox = <<>>
    /\ manager.actors[manager.broadcast.snapshot[2]].outbox = <<manager.broadcast.message>>

\* The number of entries of the registry for an address.
RegistryCount(addr) ==
    Cardinality({i \in 1..Len(manager.sessions) : manager.sessions[i] = addr})

\* C28: a session made from an upgrade request is in the manager's registry
\* exactly once from its start to its stop, and the registry holds no stopped
\* session.
C28_SessionsRegistered ==
    /\ \A a \in WsAddrs : manager.actors[a].state = "running" => RegistryCount(a) = 1
    /\ \A s \in Sessions : sessions[s].running => RegistryCount(s) = 1
    /\ \A i \in 1..Len(manager.sessions) :
          /\ manager.sessions[i] \in WsAddrs => manager.actors[manager.sessions[i]].state = "running"
          /\ manager.sessions[i] \in Sessions => sessions[manager.sessions[i]].running

\* C31: the mass is in 1..255 and does not decrease with the file size; a
\* file of 100 bytes has a mass strictly between 0 and 128, a file of
\* 1,000,000 bytes a mass strictly between 128 and 255.
C31_MassRanges ==
    call.name = "set_file_size" =>
      /\ call.result \in 1..255
      /\ \A size \in FileSizes : size <= call.arg => set_file_size(size) <= call.result
      /\ call.arg = 100 => (0 < call.result /\ call.result < 128)
      /\ call.arg = 1000000 => (128 < call.result /\ call.result < 255)

\* C32: a session has at most one periodic frame timer, however many
\* requestInitialData messages it has received.
C32_OneFrameTimer ==
    \A s \in Sessions : sessions[s].interval_timers <= 1

\* The tasks that wait for a write guard, and the guard each waits for.
WaitsForGraph(task) ==
    /\ task \in Sessions
    /\ \E k \in 1..Len(sessions[task].edits) : sessions[task].edits[k].pc = "graph"

WaitsForNodeMap(task) ==
    \/ task = "physics" /\ physics.pc = "want_map"
    \/ task = "updater" /\ call.name = "update_node_positions" /\ call.result = "node_map"
    \/ /\ task \in Sessions
       /\ \E k \in 1..Len(sessions[task].edits) : sessions[task].edits[k].pc = "node_map"

\* The node-map guard is only held by the holder of the graph guard, so no
\* task holds one guard while it waits for a guard held by a task that waits.
GuardsInOrder ==
    /\ node_map_lock # "free" => graph_lock = node_map_lock
    /\ \A task \in Sessions \cup {"physics", "updater"} :
          WaitsForNodeMap(task) => (graph_lock = task /\ node_map_lock = "free")

NoTaskWaits ==
    /\ graph_lock = "free"
    /\ node_map_lock = "free"
    /\ \A s \in Sessions : Len(sessions[s].edits) = 0 /\ sessions[s].pending_ticks = 0
    /\ ~WaitsForNodeMap("updater")

NamedIn(nodes_vec) == {to_string(nodes_vec[j].id) : j \in 1..Len(nodes_vec)}

\* C34: applying an inbound edit leaves position and velocity of every graph
\* node that the frame does not name as they were.
C34_EditTouchesNamedNodesOnly ==
    [][\A s \in Sessions, k \in 1..MaxInboundFrames :
          EditApply(s, k) =>
             \A i \in 1..Len(graph.nodes) :
                graph.nodes[i].id \notin NamedIn(sessions[s].edits[k].nodes_vec)
                   => /\ graph'.nodes[i].data.position = graph.nodes[i].data.position
                      /\ graph'.nodes[i].data.velocity = graph.nodes[i].data.velocity]_vars

\* C35: after a turn of the periodic update whose run of
\* fetch_and_process_files returned Ok, the graph holds no node and no edge
\* for a document that is no longer in the content repository.
C35_DeletedDocumentLeavesGraph ==
    [][(UpdateGraphTurn /\ files'.result = "Ok") =>
          \A file_name \in RepositoryFiles \ DOMAIN files.github :
             /\ TrimEndMd(file_name) \notin NodeIds(graph')
             /\ \A i \in 1..Len(graph'.edges) :
                   /\ graph'.edges[i].source # TrimEndMd(file_name)
                   /\ graph'.edges[i].target # TrimEndMd(file_name)]_vars

\* A header value that is text, not empty, and one of the keys listed in the
\* environment.
IsConfiguredPowerUser(header) ==
    /\ header.kind = "text"
    /\ header.value # <<>>
    /\ verify_power_user(header.value, http.power_user_pubkeys)

\* C36: a request whose X-Nostr-Pubkey header is not a configured power-user
\* key leaves the global settings as they were; update_settings answers it
\* with 400 or 403, and update_user_settings changes at most the personal
\* settings stored under that request's pubkey.
C36_OnlyPowerUsersWriteGlobal ==
    [][\A header \in HeaderValues, payload \in Payloads, save_ok \in BOOLEAN :
          ~IsConfiguredPowerUser(header) =>
             /\ update_settings(header, payload, save_ok) =>
                   /\ settings' = settings
                   /\ http'.status \in {400, 403}
                   /\ http'.user_settings = http.user_settings
             /\ update_user_settings(header, payload, save_ok) =>
                   /\ settings' = settings
                   /\ \A pubkey \in DOMAIN http'.user_settings \ {PubkeyOf(header)} :
                         /\ pubkey \in DOMAIN http.user_settings
                         /\ http'.user_settings[pubkey] = http.user_settings[pubkey]]_vars

\* C37: a request that is answered with 500 leaves the shared settings as
\* they were before the request.
C37_FailedSaveKeepsSettings ==
    [][(HandlerNext /\ http'.status = 500) => settings' = settings]_vars

\* The slice [first, last) of a sequence, empty when first is at or beyond last.
Slice(seq, first, last) == [i \in 1..(IF last > first THEN last - first ELSE 0) |-> seq[first + i]]

\* C38: for every page and page size, get_paginated_graph_data completes,
\* returns the nodes [page*page_size, min((page+1)*page_size, total)) of the
\* node sequence (none when page*page_size is at or beyond the count), reports
\* the node count as total_nodes, and returns only edges with an endpoint
\* among the returned nodes.
C38_PageIsSliceWithoutOverflow ==
    [][\A page \in Pages, page_size \in PageSizes, overflow_checks \in BOOLEAN :
          GetPaginatedGraphData(page, page_size, overflow_checks) =>
             LET total == Len(graph.nodes)
                 last == IF (page + 1) * page_size < total THEN (page + 1) * page_size ELSE total
                 result == call'.result
                 ids == {result.nodes[i].id : i \in 1..Len(result.nodes)}
             IN /\ ~result.panic
                /\ result.nodes = Slice(graph.nodes, page * page_size, last)
                /\ page * page_size >= total => result.nodes = <<>>
                /\ result.total_nodes = total
                /\ \A i \in 1..Len(result.edges) :
                      result.edges[i].source \in ids \/ result.edges[i].target \in ids]_vars

\* The provider in force after the commands of a sequence were handled.
RECURSIVE ProviderAfter(_)
ProviderAfter(commands) ==
    IF Len(commands) = 0 THEN "Sonata"
    ELSE IF commands[Len(commands)].type = "SetTTSProvider" THEN commands[Len(commands)].arg
    ELSE ProviderAfter(SubSeq(commands, 1, Len(commands) - 1))

\* C39: for every service, the commands handled so far are the first of the
\* commands sent, in the order sent, and the rest wait in the channel; a
\* SendMessage is handled under the provider of the last SetTTSProvider sent
\* before it; a handled Close is the last command handled and ends the
\* worker.
C39_CommandsInOrder ==
    \A id \in ServiceIds :
       LET service == speech.services[id]
           handled == Len(service.log)
       IN /\ handled <= Len(service.sent)
          /\ \A i \in 1..handled : service.log[i].command = service.sent[i]
          /\ service.channel = SubSeq(service.sent, handled + 1, Len(service.sent))
          /\ \A i \in 1..handled :
                service.log[i].command.type = "SendMessage"
                   => service.log[i].provider = ProviderAfter(SubSeq(service.sent, 1, i - 1))
          /\ \A i \in 1..handled :
                service.log[i].command.type = "Close"
                   => i = handled /\ service.worker = "ended"

\* The service of main has handled SetTTSProvider(OpenAI), then a message
\* under OpenAI, then Close, and a command sent after Close is left in the
\* channel.
C39_Witness ==
    LET service == speech.services["main"]
    IN /\ Len(service.log) = 3
       /\ service.log[1].command = SetTTSProvider("OpenAI")
       /\ service.log[2].command.type = "SendMessage"
       /\ service.log[2].provider = "OpenAI"
       /\ service.log[3].command = Close
       /\ service.worker = "ended"
       /\ Len(service.channel) = 1

\* C40: a SendMessage handled while the provider is OpenAI finds the
\* connection to the realtime API established and is written to it.
C40_OpenAIMessageForwarded ==
    \A id \in ServiceIds :
       \A i \in 1..Len(speech.services[id].log) :
          LET entry == speech.services[id].log[i]
          IN (entry.command.type = "SendMessage" /\ entry.provider = "OpenAI")
                => entry.outcome # "not_initialized"

====
